---- MODULE Spec2Model ----
(***************************************************************************)
(* A model of the two game engines of the repository:                      *)
(*   src/connect4/game_engine.py       Connect4Game                        *)
(*   src/llm_blackjack/game_engine.py  Card, Deck, Hand, BlackjackGame     *)
(* Each engine has its own specification (SpecC4, SpecBJ); the variables   *)
(* of the other engine stay at their initial value.                        *)
(***************************************************************************)
EXTENDS Integers, Sequences, FiniteSets, TLC

VARIABLES
    \* ---- Connect4Game fields
    board,           \* board[column][row], 0 = empty, 1 / 2 = the players
    current_player,
    game_over,
    winner,
    last_move,
    moves_count,
    \* ---- the last call made on the Connect4Game with its argument and the
    \* value it returned: <<"reset_game">> or <<"make_move", column, ok>>
    c4_call,
    \* moves_count of the position the exploration started from
    c4_start,
    \* ---- BlackjackGame fields (game_over and winner carry the prefix bj_:
    \* the names are taken by Connect4Game)
    deck,            \* Deck.cards, a sequence of cards
    player_hand,     \* Hand.cards, a sequence of cards
    dealer_hand,
    bj_game_over,
    bj_winner,
    message,
    \* ---- the last call made on the BlackjackGame:
    \* <<operation, the action its response text resolved to ("": no text),
    \*   the value returned or the exception raised>>
    bj_call,
    \* ---- a response text given to the Blackjack parsers, and what a
    \* parser made of it: <<>>, or <<"player" / "dealer", the action>>
    parse_text,
    parsed,
    \* ---- GameStats.stats: "players" (in insertion order) and "matches"
    \* (without timestamp and duration), and the last call with its result
    stats_players,
    stats_matches,
    stats_call,
    \* ---- LLMInterface: conversation_history, and the last call with the
    \* outcome of the endpoint call and what get_response returned
    llm_history,
    llm_call,
    \* ---- the Connect 4 driver: the seat types, the display log
    \* (conversation_history, the type of each message), the number of
    \* response times kept, the last request with its status code, and what
    \* get_ai_move returned in it
    player1_type,
    player2_type,
    conversation_history,
    llm_response_times,
    app_call,
    ai_move,
    \* ---- the threads handling requests: where each is in its handler and
    \* what it holds locally; api_lock, the thread holding it
    thread,
    api_lock,
    \* ---- the BlackjackEnvironment of a training run, and the last call
    \* made on it with what it returned
    env,
    env_call,
    \* ---- train_monte_carlo: agent.policy, Q, returns, the lists of the
    \* episode being played, the number of episodes completed
    policy,
    Q,
    returns,
    episode_states,
    episode_actions,
    episode_rewards,
    episode,
    \* ---- monte_carlo_model.json, the policy of the MonteCarloAgent that
    \* serves, and the last get_action on it
    model_file,
    served_policy,
    served_call,
    \* ---- train_deep_q: the replay memory, and whether the last step learned
    memory,
    dq_call,
    \* ---- the Blackjack driver: the policy on the player seat, where the
    \* start-game handler is in its AI loop ("idle": no request being handled),
    \* the answer the loop holds, and the last request with its status code and
    \* the number of dealer decisions it asked for
    bj_player_type,
    bjapp_pc,
    ai_response,
    bjapp_call

c4_fields == <<board, current_player, game_over, winner, last_move, moves_count>>
c4_vars == <<board, current_player, game_over, winner, last_move, moves_count,
             c4_call, c4_start>>

bj_fields == <<deck, player_hand, dealer_hand, bj_game_over, bj_winner, message>>
bj_vars == <<deck, player_hand, dealer_hand, bj_game_over, bj_winner, message,
             bj_call>>

parse_vars == <<parse_text, parsed>>

stats_vars == <<stats_players, stats_matches, stats_call>>

llm_vars == <<llm_history, llm_call>>

app_vars == <<player1_type, player2_type, conversation_history,
              llm_response_times, app_call, ai_move>>

thread_vars == <<thread, api_lock>>

env_vars == <<env, env_call>>
train_vars == <<policy, Q, returns, episode_states, episode_actions,
                episode_rewards, episode>>
serve_vars == <<model_file, served_policy, served_call>>
dq_vars == <<memory, dq_call>>
rl_vars == <<env_vars, train_vars, serve_vars, dq_vars>>
bjapp_vars == <<bj_player_type, bjapp_pc, ai_response, bjapp_call>>

vars == <<c4_vars, bj_vars, parse_vars, stats_vars, llm_vars, app_vars,
          thread_vars, rl_vars, bjapp_vars>>

\* What the operations of one component leave alone.
not_c4 == <<bj_vars, parse_vars, stats_vars, llm_vars, app_vars, thread_vars, rl_vars,
           bjapp_vars>>
not_bj == <<c4_vars, parse_vars, stats_vars, llm_vars, app_vars, thread_vars, rl_vars,
           bjapp_vars>>
not_parse == <<c4_vars, bj_vars, stats_vars, llm_vars, app_vars, thread_vars, rl_vars,
           bjapp_vars>>
not_stats == <<c4_vars, bj_vars, parse_vars, llm_vars, app_vars, thread_vars, rl_vars,
           bjapp_vars>>
not_llm == <<c4_vars, bj_vars, parse_vars, stats_vars, app_vars, thread_vars, rl_vars,
           bjapp_vars>>
not_rl == <<c4_vars, bj_vars, parse_vars, stats_vars, llm_vars, app_vars,
            thread_vars, bjapp_vars>>

(***************************************************************************)
(* Connect 4                                                               *)
(***************************************************************************)

\* The board is 7 columns x 6 rows; row 5 is the bottom.
Columns == 0..6
Rows == 0..5

\* None for winner (a value that is no player number) and for last_move.
NoWinner == -1
NoMove == <<>>

\* How many plies are explored from each starting position.
MaxFree == 4

\* The engine as one record, for the operators below.
C4Game == [board |-> board, current_player |-> current_player,
           game_over |-> game_over, winner |-> winner,
           last_move |-> last_move, moves_count |-> moves_count]

\* reset_game leaving a drawn game's winner behind.
reset_game_WinnerLeft ==
    [board |-> [c \in Columns |-> [r \in Rows |-> 0]],
     current_player |-> 1,
     game_over |-> FALSE,
     winner |-> 0,
     last_move |-> NoMove,
     moves_count |-> 0]

reset_game ==
    [board |-> [c \in Columns |-> [r \in Rows |-> 0]],
     current_player |-> 1,
     game_over |-> FALSE,
     winner |-> NoWinner,
     last_move |-> NoMove,
     moves_count |-> 0]

\* The four pairs of opposite directions of _check_win.
directions ==
    << << <<0, 1>>, <<0, -1>> >>,      \* vertical
       << <<1, 0>>, <<-1, 0>> >>,      \* horizontal
       << <<1, 1>>, <<-1, -1>> >>,     \* diagonal /
       << <<1, -1>>, <<-1, 1>> >> >>   \* diagonal \

\* The inner loop of _check_win: at most n further cells from (x, y) in
\* direction (dx, dy), stopping at the first that is off the board or not
\* the player's.
RECURSIVE CountDir(_, _, _, _, _, _, _)
CountDir(b, x, y, dx, dy, player, n) ==
    IF n = 0 THEN 0
    ELSE LET x2 == x + dx
             y2 == y + dy
         IN IF 0 <= x2 /\ x2 < 7 /\ 0 <= y2 /\ y2 < 6 /\ b[x2][y2] = player
            THEN 1 + CountDir(b, x2, y2, dx, dy, player, n - 1)
            ELSE 0

\* DirCount with the second direction of the pair left out.
DirCount_OneSided(b, col, row, dir_pair) ==
    1 + CountDir(b, col, row, dir_pair[1][1], dir_pair[1][2], b[col][row], 3)

\* count for one pair of directions: the piece just placed, plus up to 3
\* on each side.
DirCount(b, col, row, dir_pair) ==
    1 + CountDir(b, col, row, dir_pair[1][1], dir_pair[1][2], b[col][row], 3)
      + CountDir(b, col, row, dir_pair[2][1], dir_pair[2][2], b[col][row], 3)

check_win(b, col, row) ==
    \E i \in 1..Len(directions) : DirCount(b, col, row, directions[i]) >= 4

\* LowestEmpty with the scan run from row 0 down.
LowestEmpty_FromTop(b, column) ==
    LET empty == {r \in Rows : b[column][r] = 0}
    IN CHOOSE r \in empty : \A q \in empty : q >= r

\* The row make_move's scan (5 down to 0) stops at: the lowest empty cell.
LowestEmpty(b, column) ==
    LET empty == {r \in Rows : b[column][r] = 0}
    IN CHOOSE r \in empty : \A q \in empty : q <= r

\* make_move without the game_over test of its first line.
make_move_AfterGameOver(g, column) ==
    IF column < 0 \/ column > 6
    THEN [ok |-> FALSE, g |-> g]
    ELSE IF \A r \in Rows : g.board[column][r] # 0
    THEN [ok |-> FALSE, g |-> g]
    ELSE LET row == LowestEmpty(g.board, column)
             b2 == [g.board EXCEPT ![column][row] = g.current_player]
             n2 == g.moves_count + 1
             placed == [g EXCEPT !.board = b2,
                                 !.last_move = <<column, row>>,
                                 !.moves_count = n2]
         IN [ok |-> TRUE,
             g |-> IF check_win(b2, column, row)
                   THEN [placed EXCEPT !.game_over = TRUE,
                                       !.winner = g.current_player]
                   ELSE IF n2 = 42
                   THEN [placed EXCEPT !.game_over = TRUE, !.winner = 0]
                   ELSE [placed EXCEPT !.current_player = 3 - g.current_player]]

\* make_move with the draw check ahead of the win check.
make_move_DrawFirst(g, column) ==
    IF g.game_over \/ column < 0 \/ column > 6
    THEN [ok |-> FALSE, g |-> g]
    ELSE IF \A r \in Rows : g.board[column][r] # 0
    THEN [ok |-> FALSE, g |-> g]
    ELSE LET row == LowestEmpty(g.board, column)
             b2 == [g.board EXCEPT ![column][row] = g.current_player]
             n2 == g.moves_count + 1
             placed == [g EXCEPT !.board = b2,
                                 !.last_move = <<column, row>>,
                                 !.moves_count = n2]
         IN [ok |-> TRUE,
             g |-> IF n2 = 42
                   THEN [placed EXCEPT !.game_over = TRUE, !.winner = 0]
                   ELSE IF check_win(b2, column, row)
                   THEN [placed EXCEPT !.game_over = TRUE,
                                       !.winner = g.current_player]
                   ELSE [placed EXCEPT !.current_player = 3 - g.current_player]]

\* make_move: [ok |-> the value returned, g |-> the engine afterwards]
\* make_move switching the player after a winning move too.
make_move_SwitchAlways(g, column) ==
    IF g.game_over \/ column < 0 \/ column > 6
    THEN [ok |-> FALSE, g |-> g]
    ELSE IF \A r \in Rows : g.board[column][r] # 0
    THEN [ok |-> FALSE, g |-> g]
    ELSE LET row == LowestEmpty(g.board, column)
             b2 == [g.board EXCEPT ![column][row] = g.current_player]
             n2 == g.moves_count + 1
             placed == [g EXCEPT !.board = b2,
                                 !.last_move = <<column, row>>,
                                 !.moves_count = n2]
         IN [ok |-> TRUE,
             g |-> IF check_win(b2, column, row)
                   THEN [placed EXCEPT !.game_over = TRUE,
                                       !.winner = g.current_player,
                                       !.current_player = 3 - g.current_player]
                   ELSE IF n2 = 42
                   THEN [placed EXCEPT !.game_over = TRUE, !.winner = 0]
                   ELSE [placed EXCEPT !.current_player = 3 - g.current_player]]

make_move(g, column) ==
    IF g.game_over \/ column < 0 \/ column > 6
    THEN [ok |-> FALSE, g |-> g]
    ELSE IF \A r \in Rows : g.board[column][r] # 0
    THEN [ok |-> FALSE, g |-> g]
    ELSE LET row == LowestEmpty(g.board, column)
             b2 == [g.board EXCEPT ![column][row] = g.current_player]
             n2 == g.moves_count + 1
             placed == [g EXCEPT !.board = b2,
                                 !.last_move = <<column, row>>,
                                 !.moves_count = n2]
         IN [ok |-> TRUE,
             g |-> IF check_win(b2, column, row)
                   THEN [placed EXCEPT !.game_over = TRUE,
                                       !.winner = g.current_player]
                   ELSE IF n2 = 42
                   THEN [placed EXCEPT !.game_over = TRUE, !.winner = 0]
                   ELSE [placed EXCEPT !.current_player = 3 - g.current_player]]

\* get_valid_moves without the test of game_over.
get_valid_moves_AfterGameOver(g) == {col \in Columns : g.board[col][0] = 0}

get_valid_moves(g) ==
    IF g.game_over THEN {} ELSE {col \in Columns : g.board[col][0] = 0}


\* Positions the exploration starts from, each given by the accepted moves
\* that lead to it from reset_game: the empty board, two middle games and
\* a board with four cells left.
Openings ==
    { <<>>,
      <<0, 0, 1, 1, 2, 2, 4, 4, 5, 5, 6, 6>>,
      <<2, 2, 6, 5, 2, 2, 0, 5, 0, 5, 3, 3>>,
      <<2, 0, 0, 2, 3, 0, 3, 2, 6, 0, 1, 5, 6, 5, 2, 2, 5, 6, 1,
        2, 6, 4, 0, 5, 6, 3, 1, 1, 1, 1, 6, 4, 5, 3, 4, 0, 4, 4>> }

\* The engine after the calls make_move(moves[1]), make_move(moves[2]), ...,
\* up to the first that is rejected.
RECURSIVE Replay(_, _)
Replay(g, moves) ==
    IF moves = <<>> THEN g
    ELSE LET r == make_move(g, Head(moves))
         IN IF r.ok THEN Replay(r.g, Tail(moves)) ELSE g

\* The columns a caller passes: every column and one integer off each end.
ColumnInputs == -1..7

C4Init ==
    \E o \in Openings :
        LET g == Replay(reset_game, o)
        IN /\ g.moves_count = Len(o)
           /\ ~g.game_over
           /\ board = g.board
           /\ current_player = g.current_player
           /\ game_over = g.game_over
           /\ winner = g.winner
           /\ last_move = g.last_move
           /\ moves_count = g.moves_count
           /\ c4_call = IF o = <<>> THEN <<"reset_game">>
                        ELSE <<"make_move", o[Len(o)], TRUE>>
           /\ c4_start = Len(o)

MakeMove(column) ==
    /\ moves_count - c4_start < MaxFree \/ game_over
    /\ \E r \in {make_move(C4Game, column)} :
          /\ board' = r.g.board
          /\ current_player' = r.g.current_player
          /\ game_over' = r.g.game_over
          /\ winner' = r.g.winner
          /\ last_move' = r.g.last_move
          /\ moves_count' = r.g.moves_count
          /\ c4_call' = <<"make_move", column, r.ok>>
    /\ UNCHANGED c4_start
    /\ UNCHANGED not_c4

ResetGame ==
    /\ board' = reset_game.board
    /\ current_player' = reset_game.current_player
    /\ game_over' = reset_game.game_over
    /\ winner' = reset_game.winner
    /\ last_move' = reset_game.last_move
    /\ moves_count' = reset_game.moves_count
    /\ c4_call' = <<"reset_game">>
    /\ c4_start' = 0
    /\ UNCHANGED not_c4

(***************************************************************************)
(* Blackjack: cards, deck, hands                                           *)
(***************************************************************************)

SUITS == <<"hearts", "diamonds", "clubs", "spades">>
RANKS == <<"2", "3", "4", "5", "6", "7", "8", "9", "10", "J", "Q", "K", "A">>
CARD_VALUES ==
    [r \in {RANKS[i] : i \in 1..Len(RANKS)} |->
        CASE r = "2" -> 2 [] r = "3" -> 3 [] r = "4" -> 4 [] r = "5" -> 5
          [] r = "6" -> 6 [] r = "7" -> 7 [] r = "8" -> 8 [] r = "9" -> 9
          [] r = "10" -> 10 [] r = "J" -> 10 [] r = "Q" -> 10 [] r = "K" -> 10
          [] r = "A" -> 11]

Card(suit, rank) ==
    [suit |-> suit, rank |-> rank, value |-> CARD_VALUES[rank], hidden |-> FALSE]

\* Deck.reset before the shuffle: the 52 cards, suit by suit.
Ordered ==
    [k \in 1..52 |-> Card(SUITS[((k - 1) \div 13) + 1], RANKS[((k - 1) % 13) + 1])]

\* The orders random.shuffle leaves the deck in, each given by the ranks of
\* the cards dealt first (in start_game: player, dealer hidden, player,
\* dealer, then the cards hit or drawn); the first NumShuffles are explored.
NumShuffles == 12
Shuffles ==
    << <<"A", "Q", "Q", "A", "5", "9">>,
       <<"A", "6", "Q", "9", "K", "2">>,
       <<"6", "Q", "5", "6", "Q", "5">>,
       <<"Q", "9", "6", "8", "7", "3">>,
       <<"A", "2", "6", "3", "Q", "4", "5", "7">>,
       <<"A", "9", "A", "7", "9", "6">>,
       <<"Q", "Q", "9", "7", "2", "K">>,
       <<"Q", "9", "8", "9", "5", "4">>,
       <<"5", "A", "4", "3", "Q", "6", "2", "3", "J">>,
       <<"2", "2", "3", "3", "2", "4", "2", "3", "4", "5", "A", "A", "6">>,
       <<"5", "6", "5", "Q", "9", "8", "7">>,
       <<"K", "Q", "6", "6", "Q", "A", "A", "10">>,
       <<"7", "A", "A", "6", "3", "A", "K", "9">>,
       <<"9", "7", "3", "K", "4", "5", "8">> >>

\* The cards of the given ranks, the k-th card of a rank in the k-th suit.
TopCards(ranks) ==
    [i \in 1..Len(ranks) |->
        Card(SUITS[1 + Cardinality({j \in 1..(i - 1) : ranks[j] = ranks[i]})],
             ranks[i])]

Reverse(seq) == [i \in 1..Len(seq) |-> seq[Len(seq) + 1 - i]]

\* A deck that deals the cards of the given ranks first: deal pops the last.
Shuffled(ranks) ==
    LET top == TopCards(ranks)
        dealt == {top[i] : i \in 1..Len(top)}
    IN SelectSeq(Ordered, LAMBDA c : c \notin dealt) \o Reverse(top)

\* Deck(): a reset, shuffled deck.
Deck == {Shuffled(Shuffles[n]) : n \in 1..NumShuffles}

\* Deck.deal: the outcomes [card |-> the card popped, deck |-> the deck left];
\* an empty deck is first reset and shuffled.
deal(d) ==
    {[card |-> cards[Len(cards)], deck |-> SubSeq(cards, 1, Len(cards) - 1)]
     : cards \in IF d = <<>> THEN Deck ELSE {d}}

RECURSIVE SumVisible(_)
SumVisible(cards) ==
    IF cards = <<>> THEN 0
    ELSE (IF Head(cards).hidden THEN 0 ELSE Head(cards).value)
         + SumVisible(Tail(cards))

VisibleAces(cards) ==
    Cardinality({i \in 1..Len(cards) :
                    ~cards[i].hidden /\ cards[i].rank = "A"})

\* The while loop of get_value.
RECURSIVE AceLoop(_, _)
AceLoop(value, num_aces) ==
    IF value > 21 /\ num_aces > 0
    THEN AceLoop(value - 10, num_aces - 1)
    ELSE value

\* AceLoop taking all the aces down at once.
get_value_AllAces(cards) ==
    IF SumVisible(cards) > 21
    THEN SumVisible(cards) - 10 * VisibleAces(cards)
    ELSE SumVisible(cards)

get_value(cards) == AceLoop(SumVisible(cards), VisibleAces(cards))

is_blackjack(cards) == Len(cards) = 2 /\ get_value(cards) = 21

is_busted(cards) == get_value(cards) > 21

(***************************************************************************)
(* Blackjack: response texts, as sequences of characters                   *)
(***************************************************************************)

Whitespace == {" ", "\n", "\t"}

LowerCase == <<"a", "b", "c", "d", "e", "f", "g", "h", "i", "j", "k", "l", "m",
               "n", "o", "p", "q", "r", "s", "t", "u", "v", "w", "x", "y", "z">>
UpperCase == <<"A", "B", "C", "D", "E", "F", "G", "H", "I", "J", "K", "L", "M",
               "N", "O", "P", "Q", "R", "S", "T", "U", "V", "W", "X", "Y", "Z">>

\* str.upper
Upper(t) ==
    [i \in 1..Len(t) |->
        IF \E k \in 1..26 : LowerCase[k] = t[i]
        THEN UpperCase[CHOOSE k \in 1..26 : LowerCase[k] = t[i]]
        ELSE t[i]]

\* The positions at which pat occurs in t.
Occurrences(t, pat) ==
    {i \in 1..(Len(t) - Len(pat) + 1) : SubSeq(t, i, i + Len(pat) - 1) = pat}

\* pat in t
Contains(t, pat) == Occurrences(t, pat) # {}

\* t.split(pat, 1)[1], for a t that contains pat
AfterFirst(t, pat) ==
    LET at == Occurrences(t, pat)
        first == CHOOSE i \in at : \A j \in at : i <= j
    IN SubSeq(t, first + Len(pat), Len(t))

Inked(t) == {i \in 1..Len(t) : t[i] \notin Whitespace}

\* str.strip
Strip(t) ==
    IF Inked(t) = {} THEN <<>>
    ELSE SubSeq(t, CHOOSE i \in Inked(t) : \A j \in Inked(t) : i <= j,
                   CHOOSE i \in Inked(t) : \A j \in Inked(t) : j <= i)

\* t.split()[-1], for a t with a character that is no whitespace
LastWord(t) ==
    LET end == CHOOSE i \in Inked(t) : \A j \in Inked(t) : j <= i
        starts == {i \in 1..end : \A k \in i..end : k \in Inked(t)}
    IN SubSeq(t, CHOOSE i \in starts : \A j \in starts : i <= j, end)

HIT == <<"H", "I", "T">>
STAND == <<"S", "T", "A", "N", "D">>
CloseThink == <<"<", "/", "t", "h", "i", "n", "k", ">">>
OpenThink == <<"<", "t", "h", "i", "n", "k", ">">>

\* The response texts the callers pass.
Responses ==
    << HIT,                                             \* "HIT"
       <<"s", "t", "a", "n", "d">>,                     \* "stand"
       <<" ", "H", "i", "t", "\n">>,                    \* " Hit\n"
       OpenThink \o STAND \o CloseThink \o <<"h", "i", "t">>,
                                                        \* "<think>STAND</think>hit"
       <<"I", " ">> \o STAND \o <<" ", "n", "o", "w">>, \* "I STAND now"
       HIT \o <<" ", "o", "r", " ">> \o STAND,          \* "HIT or STAND"
       STAND \o <<" ", "o", "r", " ">> \o HIT,          \* "STAND or HIT"
       <<"h", "i", "t", " ", "m", "e", "!", " ", ":", ")">>,
                                                        \* "hit me! :)"
       <<"p", "a", "s", "s">>,                          \* "pass"
       <<>>,                                            \* ""
       <<"I", " ", "t", "h", "i", "n", "k", " ", "I", " ", "s", "h", "o", "u",
         "l", "d", " ">> \o STAND \o <<" ", "h", "e", "r", "e">>,
                                            \* "I think I should STAND here"
       HIT \o <<" ", "o", "r", " ">> \o STAND
           \o <<"?", " ", "I", "'", "l", "l", " ">> \o STAND,
                                            \* "HIT or STAND? I'll STAND"
       <<"h", "i", "t", "/", "s", "t", "a", "n", "d">>, \* "hit/stand"
       <<"s", "t", "a", "n", "d", ",", " ", "n", "o", "t", " ", "h", "i", "t",
         ",", " ", "o", "k">>,              \* "stand, not hit, ok"
       OpenThink \o <<"h", "i", "t", "?", " ">> \o CloseThink \o OpenThink
           \o <<" ", "s", "t", "a", "n", "d">> \o CloseThink,
                                            \* "<think>hit? </think><think> stand</think>"
       <<"\t">> >>                                      \* "\t"

\* player_action with the whole-text search made before the last word.
player_action_FallbackFirst(text) ==
    LET response == Upper(Strip(
            IF Contains(text, CloseThink)
            THEN Strip(AfterFirst(text, CloseThink)) ELSE text))
    IN IF response = HIT THEN "HIT"
       ELSE IF response = STAND THEN "STAND"
       ELSE IF Contains(response, STAND) THEN "STAND"
       ELSE IF Contains(response, HIT) THEN "HIT"
       ELSE "INVALID"

\* The action process_player_llm_response resolves a text to: its lines
\* 316-353 without the calls.
player_action(text) ==
    LET response == Upper(Strip(
            IF Contains(text, CloseThink)
            THEN Strip(AfterFirst(text, CloseThink)) ELSE text))
    IN IF response = HIT THEN "HIT"
       ELSE IF response = STAND THEN "STAND"
       ELSE IF Inked(response) # {} /\ Contains(LastWord(response), HIT)
       THEN "HIT"
       ELSE IF Inked(response) # {} /\ Contains(LastWord(response), STAND)
       THEN "STAND"
       ELSE IF Contains(response, STAND) THEN "STAND"
       ELSE IF Contains(response, HIT) THEN "HIT"
       ELSE "INVALID"

\* dealer_action with HIT searched before STAND in the whole text.
dealer_action_HitFirst(text) ==
    LET response == Upper(Strip(
            IF Contains(text, CloseThink)
            THEN Strip(AfterFirst(text, CloseThink)) ELSE text))
    IN IF response = HIT THEN "HIT"
       ELSE IF response = STAND THEN "STAND"
       ELSE IF Inked(response) # {} /\ Contains(LastWord(response), HIT)
       THEN "HIT"
       ELSE IF Inked(response) # {} /\ Contains(LastWord(response), STAND)
       THEN "STAND"
       ELSE IF Contains(response, HIT) THEN "HIT"
       ELSE IF Contains(response, STAND) THEN "STAND"
       ELSE "INVALID"

\* The action process_dealer_llm_response resolves a text to: its lines
\* 228-287 without the calls.
dealer_action(text) ==
    LET response == Upper(Strip(
            IF Contains(text, CloseThink)
            THEN Strip(AfterFirst(text, CloseThink)) ELSE text))
    IN IF response = HIT THEN "HIT"
       ELSE IF response = STAND THEN "STAND"
       ELSE IF Inked(response) # {} /\ Contains(LastWord(response), HIT)
       THEN "HIT"
       ELSE IF Inked(response) # {} /\ Contains(LastWord(response), STAND)
       THEN "STAND"
       ELSE IF Contains(response, STAND) THEN "STAND"
       ELSE IF Contains(response, HIT) THEN "HIT"
       ELSE "INVALID"

(***************************************************************************)
(* Blackjack: the engine                                                   *)
(***************************************************************************)

\* None for winner.
None == "None"

\* dealer_hand.cards[0] on an empty hand raises IndexError: an operation's
\* outcome is [g |-> the engine it leaves, exc |-> the exception raised or ""].
NoExc == ""
IndexError == "IndexError"

\* How many cards the dealer hand may hold for a dealer response to be
\* processed (the engine itself sets no limit).
MaxDealerCards == 3

BJGame == [deck |-> deck, player_hand |-> player_hand,
           dealer_hand |-> dealer_hand, game_over |-> bj_game_over,
           winner |-> bj_winner, message |-> message]

\* BlackjackGame.__init__
NewGame(d) ==
    [deck |-> d, player_hand |-> <<>>, dealer_hand |-> <<>>,
     game_over |-> FALSE, winner |-> None, message |-> ""]

\* self.dealer_hand.cards[0].hidden = False, on a hand that has a card
Reveal(cards) == [cards EXCEPT ![1].hidden = FALSE]

\* The blackjack check of start_game with the reveal left out.
start_check_NoReveal(g) ==
    IF is_blackjack(g.player_hand)
    THEN IF is_blackjack(g.dealer_hand)
         THEN [g EXCEPT !.game_over = TRUE, !.winner = "tie",
                        !.message = "Both have Blackjack! It's a tie!"]
         ELSE [g EXCEPT !.game_over = TRUE, !.winner = "player",
                        !.message = "Blackjack! Player wins!"]
    ELSE g

\* The blackjack check that ends start_game (lines 111-121).
start_check(g) ==
    IF is_blackjack(g.player_hand)
    THEN LET shown == [g EXCEPT !.dealer_hand = Reveal(g.dealer_hand)]
         IN IF is_blackjack(shown.dealer_hand)
            THEN [shown EXCEPT !.game_over = TRUE, !.winner = "tie",
                               !.message = "Both have Blackjack! It's a tie!"]
            ELSE [shown EXCEPT !.game_over = TRUE, !.winner = "player",
                               !.message = "Blackjack! Player wins!"]
    ELSE g

\* start_game: the engines it may leave, one for each shuffle of the fresh
\* deck the four cards are dealt from (player, dealer hidden, player, dealer).
start_game ==
    UNION { UNION { UNION { UNION {
        { start_check(
            [deck |-> d2.deck,
             player_hand |-> <<p1.card, p2.card>>,
             dealer_hand |-> <<[d1.card EXCEPT !.hidden = TRUE], d2.card>>,
             game_over |-> FALSE, winner |-> None, message |-> ""])
          : d2 \in deal(p2.deck) }
        : p2 \in deal(d1.deck) }
        : d1 \in deal(p1.deck) }
        : p1 \in deal(d0) }
        : d0 \in Deck }

\* The while loop of player_stand: every [deck, hand] the dealer may end with.
RECURSIVE DealerDraws(_, _)
DealerDraws(d, cards) ==
    IF get_value(cards) < 17
    THEN UNION {DealerDraws(o.deck, Append(cards, o.card)) : o \in deal(d)}
    ELSE {[deck |-> d, hand |-> cards]}

\* "Determine winner" of player_stand (lines 151-168).
stand_result(g) ==
    LET dealer_value == get_value(g.dealer_hand)
        player_value == get_value(g.player_hand)
    IN IF is_busted(g.dealer_hand)
       THEN [g EXCEPT !.winner = "player", !.game_over = TRUE,
                      !.message = "Dealer busts! Player wins!"]
       ELSE IF dealer_value > player_value
       THEN [g EXCEPT !.winner = "dealer", !.game_over = TRUE,
                      !.message = "Dealer wins!"]
       ELSE IF player_value > dealer_value
       THEN [g EXCEPT !.winner = "player", !.game_over = TRUE,
                      !.message = "Player wins!"]
       ELSE [g EXCEPT !.winner = "tie", !.game_over = TRUE,
                      !.message = "It's a tie!"]

\* player_stand with the winner and game_over left unset.
player_stand_NotOver(g) ==
    IF g.game_over
    THEN {[g |-> g, exc |-> NoExc]}
    ELSE IF g.dealer_hand = <<>>
    THEN {[g |-> g, exc |-> IndexError]}
    ELSE {[g |-> [g EXCEPT !.deck = o.deck, !.dealer_hand = o.hand],
           exc |-> NoExc]
          : o \in DealerDraws(g.deck, Reveal(g.dealer_hand))}

player_stand(g) ==
    IF g.game_over
    THEN {[g |-> g, exc |-> NoExc]}
    ELSE IF g.dealer_hand = <<>>
    THEN {[g |-> g, exc |-> IndexError]}
    ELSE {[g |-> stand_result([g EXCEPT !.deck = o.deck, !.dealer_hand = o.hand]),
           exc |-> NoExc]
          : o \in DealerDraws(g.deck, Reveal(g.dealer_hand))}

\* after_hit leaving a hand of exactly 21 to the player.
after_hit_NoStandAt21(g) ==
    IF is_busted(g.player_hand)
    THEN LET lost == [g EXCEPT !.game_over = TRUE, !.winner = "dealer",
                               !.message = "Player busts! Dealer wins!"]
         IN IF g.dealer_hand = <<>>
            THEN {[g |-> lost, exc |-> IndexError]}
            ELSE {[g |-> [lost EXCEPT !.dealer_hand = Reveal(g.dealer_hand)],
                   exc |-> NoExc]}
    ELSE {[g |-> g, exc |-> NoExc]}

\* What player_hit does once the card is in the hand (lines 129-138).
after_hit(g) ==
    IF is_busted(g.player_hand)
    THEN LET lost == [g EXCEPT !.game_over = TRUE, !.winner = "dealer",
                               !.message = "Player busts! Dealer wins!"]
         IN IF g.dealer_hand = <<>>
            THEN {[g |-> lost, exc |-> IndexError]}
            ELSE {[g |-> [lost EXCEPT !.dealer_hand = Reveal(g.dealer_hand)],
                   exc |-> NoExc]}
    ELSE IF get_value(g.player_hand) = 21
    THEN player_stand(g)
    ELSE {[g |-> g, exc |-> NoExc]}

\* player_hit without the game_over test of its first line.
player_hit_AfterGameOver(g) ==
    UNION {after_hit([g EXCEPT !.deck = o.deck,
                               !.player_hand = Append(g.player_hand, o.card)])
           : o \in deal(g.deck)}

player_hit(g) ==
    IF g.game_over
    THEN {[g |-> g, exc |-> NoExc]}
    ELSE UNION {after_hit([g EXCEPT !.deck = o.deck,
                                    !.player_hand = Append(g.player_hand, o.card)])
                : o \in deal(g.deck)}

\* What a process_..._llm_response call hands back: the string returned, or
\* the exception that left it.
Returned(o, string) == IF o.exc = NoExc THEN <<string>> ELSE <<"raise", o.exc>>

InvalidResponse == "Invalid response. Please respond with HIT or STAND."

\* What each of Responses resolves to, computed once.
PlayerActions == {<<i, player_action(Responses[i])>> : i \in 1..Len(Responses)}
DealerActions == {<<i, dealer_action(Responses[i])>> : i \in 1..Len(Responses)}

\* process_player_llm_response on a text that resolves to action: the
\* outcomes [ret, g].
process_player_llm_response(g, action) ==
    IF action = "HIT"
    THEN {[ret |-> Returned(o, "HIT"), g |-> o.g] : o \in player_hit(g)}
    ELSE IF action = "STAND"
    THEN {[ret |-> Returned(o, "STAND"), g |-> o.g] : o \in player_stand(g)}
    ELSE {[ret |-> <<InvalidResponse>>, g |-> g]}

\* "Dealer takes another card" of process_dealer_llm_response (lines 238-247,
\* and again 257-266 and 276-285).
dealer_hit(g) ==
    {LET g1 == [g EXCEPT !.deck = o.deck,
                         !.dealer_hand = Append(g.dealer_hand, o.card)]
     IN IF is_busted(g1.dealer_hand)
        THEN [ret |-> <<"Dealer hits and busts! Player wins!">>,
              g |-> [g1 EXCEPT !.game_over = TRUE, !.winner = "player",
                               !.message = "Dealer busts! Player wins!"]]
        ELSE [ret |-> <<"Dealer hits and now has a visible hand value of ",
                        get_value(g1.dealer_hand)>>,
              g |-> g1]
     : o \in deal(g.deck)}

MustHit == "As the dealer, you must hit until your hand value is at least 17."

\* "Determine winner" of _process_dealer_stand (lines 298-312).
dealer_stand_result(g) ==
    LET dealer_value == get_value(g.dealer_hand)
        player_value == get_value(g.player_hand)
    IN IF dealer_value > player_value
       THEN [ret |-> <<"Dealer wins!">>,
             g |-> [g EXCEPT !.winner = "dealer", !.game_over = TRUE,
                             !.message = "Dealer wins!"]]
       ELSE IF player_value > dealer_value
       THEN [ret |-> <<"Player wins!">>,
             g |-> [g EXCEPT !.winner = "player", !.game_over = TRUE,
                             !.message = "Player wins!"]]
       ELSE [ret |-> <<"It's a tie!">>,
             g |-> [g EXCEPT !.winner = "tie", !.game_over = TRUE,
                             !.message = "It's a tie!"]]

\* _process_dealer_stand with the test against 17 off by one.
process_dealer_stand_Below16(g) ==
    IF get_value(g.dealer_hand) < 16
    THEN [ret |-> <<MustHit>>, g |-> g]
    ELSE dealer_stand_result(g)

process_dealer_stand(g) ==
    IF get_value(g.dealer_hand) < 17
    THEN [ret |-> <<MustHit>>, g |-> g]
    ELSE dealer_stand_result(g)

\* process_dealer_llm_response on a text that resolves to action: the
\* outcomes [ret, g].
process_dealer_llm_response(g, action) ==
    IF action = "HIT" THEN dealer_hit(g)
    ELSE IF action = "STAND" THEN {process_dealer_stand(g)}
    ELSE {[ret |-> <<InvalidResponse>>, g |-> g]}

(***************************************************************************)
(* Blackjack: the calls                                                    *)
(***************************************************************************)

BJInit ==
    /\ \E d \in Deck :
          /\ deck = NewGame(d).deck
          /\ player_hand = NewGame(d).player_hand
          /\ dealer_hand = NewGame(d).dealer_hand
          /\ bj_game_over = NewGame(d).game_over
          /\ bj_winner = NewGame(d).winner
          /\ message = NewGame(d).message
    /\ bj_call = <<"__init__", "", <<>> >>

\* The engine becomes g.
Becomes(g) ==
    /\ deck' = g.deck
    /\ player_hand' = g.player_hand
    /\ dealer_hand' = g.dealer_hand
    /\ bj_game_over' = g.game_over
    /\ bj_winner' = g.winner
    /\ message' = g.message

StartGame ==
    /\ \E g \in start_game :
          /\ Becomes(g)
          /\ bj_call' = <<"start_game", "", <<>> >>
    /\ UNCHANGED not_bj

PlayerHit ==
    /\ \E o \in player_hit(BJGame) :
          /\ Becomes(o.g)
          /\ bj_call' = <<"player_hit", "",
                          IF o.exc = NoExc THEN <<>> ELSE <<"raise", o.exc>> >>
    /\ UNCHANGED not_bj

PlayerStand ==
    /\ \E o \in player_stand(BJGame) :
          /\ Becomes(o.g)
          /\ bj_call' = <<"player_stand", "",
                          IF o.exc = NoExc THEN <<>> ELSE <<"raise", o.exc>> >>
    /\ UNCHANGED not_bj

\* process_player_llm_response(Responses[i])
ProcessPlayerResponse(i) ==
    /\ \E a \in PlayerActions :
          /\ a[1] = i
          /\ \E o \in process_player_llm_response(BJGame, a[2]) :
                /\ Becomes(o.g)
                /\ bj_call' = <<"process_player_llm_response", a[2], o.ret>>
    /\ UNCHANGED not_bj

\* process_dealer_llm_response(Responses[i])
ProcessDealerResponse(i) ==
    /\ \E a \in DealerActions :
          /\ a[1] = i
          /\ a[2] = "HIT" => Len(dealer_hand) < MaxDealerCards
          /\ \E o \in process_dealer_llm_response(BJGame, a[2]) :
                /\ Becomes(o.g)
                /\ bj_call' = <<"process_dealer_llm_response", a[2], o.ret>>
    /\ UNCHANGED not_bj

(***************************************************************************)
(* Connect 4: process_player_llm_response                                  *)
(***************************************************************************)

\* The response texts the callers pass.
C4Responses ==
    <<
       \* 'I will choose 3'
       <<"I", " ", "w", "i", "l", "l", " ", "c", "h", "o", "o", "s", "e", " ", "3">>,
       \* '<think>stuff</think>4'
       <<"<", "t", "h", "i", "n", "k", ">", "s", "t", "u", "f", "f", "<", "/", "t", "h", "i", "n", "k", ">", "4">>,
       \* 'no digits here'
       <<"n", "o", " ", "d", "i", "g", "i", "t", "s", " ", "h", "e", "r", "e">>,
       \* '<think>5</think><think>5</think>3'
       <<"<", "t", "h", "i", "n", "k", ">", "5", "<", "/", "t", "h", "i", "n", "k", ">", "<", "t", "h", "i", "n", "k", ">", "5", "<", "/", "t", "h", "i", "n", "k", ">", "3">>,
       \* '</think>2<think>'
       <<"<", "/", "t", "h", "i", "n", "k", ">", "2", "<", "t", "h", "i", "n", "k", ">">>,
       \* '7 or 8? 6'
       <<"7", " ", "o", "r", " ", "8", "?", " ", "6">>,
       \* '<think>1'
       <<"<", "t", "h", "i", "n", "k", ">", "1">>,
       \* '<think>0</think> <think>1</think>2'
       <<"<", "t", "h", "i", "n", "k", ">", "0", "<", "/", "t", "h", "i", "n", "k", ">", " ", "<", "t", "h", "i", "n", "k", ">", "1", "<", "/", "t", "h", "i", "n", "k", ">", "2">>,
       \* ''
       <<>>,
       \* ' 9 \n'
       <<" ", "9", " ", "\n">> >>

\* No column extracted (column None).
NoColumn == -1

Digits06 == <<"0", "1", "2", "3", "4", "5", "6">>

\* re.search(r"<think>([\s\S]*?)</think>", t).group(0): the match starts at
\* the leftmost <think> that a </think> follows and ends with the nearest
\* such </think>; <<>> when there is no match.
think_match(t) ==
    LET opens == {p \in Occurrences(t, OpenThink) :
                    \E q \in Occurrences(t, CloseThink) : q >= p + Len(OpenThink)}
    IN IF opens = {} THEN <<>>
       ELSE LET start == CHOOSE p \in opens : \A r \in opens : p <= r
                closes == {q \in Occurrences(t, CloseThink) :
                              q >= start + Len(OpenThink)}
                close == CHOOSE q \in closes : \A r \in closes : q <= r
            IN SubSeq(t, start, close + Len(CloseThink) - 1)

\* str.replace(old, "") with only the first occurrence taken out.
RECURSIVE Replace_FirstOnly(_, _)
Replace_FirstOnly(t, old) ==
    IF Len(t) < Len(old) THEN t
    ELSE IF SubSeq(t, 1, Len(old)) = old
    THEN SubSeq(t, Len(old) + 1, Len(t))
    ELSE <<Head(t)>> \o Replace_FirstOnly(Tail(t), old)

\* str.replace(old, ""), old not empty: every occurrence, left to right.
RECURSIVE Replace(_, _)
Replace(t, old) ==
    IF Len(t) < Len(old) THEN t
    ELSE IF SubSeq(t, 1, Len(old)) = old
    THEN Replace(SubSeq(t, Len(old) + 1, Len(t)), old)
    ELSE <<Head(t)>> \o Replace(Tail(t), old)

\* clean_response of process_player_llm_response (lines 152-160).
clean_response(response) ==
    IF /\ Contains(response, OpenThink)
       /\ Contains(response, CloseThink)
       /\ think_match(response) # <<>>
    THEN Strip(Replace(response, think_match(response)))
    ELSE response

\* int(re.search(r"[0-6]", t).group(0)), or NoColumn when there is no match.
column_match(t) ==
    LET at == {i \in 1..Len(t) : \E d \in 1..7 : Digits06[d] = t[i]}
    IN IF at = {} THEN NoColumn
       ELSE LET first == CHOOSE i \in at : \A j \in at : i <= j
            IN (CHOOSE d \in 1..7 : Digits06[d] = t[first]) - 1

\* The column each of C4Responses gives, computed once.
C4Columns ==
    [i \in 1..Len(C4Responses) |-> column_match(clean_response(C4Responses[i]))]

\* process_player_llm_response playing the middle column when the text gives
\* none.
c4_process_player_llm_response_Default(g, column) ==
    LET r == make_move(g, IF column # NoColumn THEN column ELSE 3)
    IN [column |-> column, success |-> column # NoColumn /\ r.ok, g |-> r.g]

\* process_player_llm_response on a text that gives column: the result's
\* column and success, and the engine left.
c4_process_player_llm_response(g, column) ==
    IF column # NoColumn
    THEN LET r == make_move(g, column)
         IN [column |-> column, success |-> r.ok, g |-> r.g]
    ELSE [column |-> NoColumn, success |-> FALSE, g |-> g]

\* process_player_llm_response(C4Responses[i])
ProcessResponse(i) ==
    /\ moves_count - c4_start < MaxFree \/ game_over
    /\ \E r \in {c4_process_player_llm_response(C4Game, C4Columns[i])} :
          /\ board' = r.g.board
          /\ current_player' = r.g.current_player
          /\ game_over' = r.g.game_over
          /\ winner' = r.g.winner
          /\ last_move' = r.g.last_move
          /\ moves_count' = r.g.moves_count
          /\ c4_call' = <<"process_player_llm_response", i, r.column, r.success>>
    /\ UNCHANGED c4_start
    /\ UNCHANGED not_c4

(***************************************************************************)
(* Blackjack: the two response parsers on their own                        *)
(***************************************************************************)

\* The longest body, in words, of the texts parsed.
MaxWords == 3

\* What may precede the body of a response: nothing, a thinking section,
\* and closing tags without their opening.
Thinks ==
    << <<>>,
       OpenThink \o <<"h", "i", "t">> \o CloseThink \o <<"\n">>,
       CloseThink \o <<"h", "i", "t">> \o CloseThink \o <<" ">> >>

\* The words of a body.
Words ==
    << HIT,
       <<"s", "t", "a", "n", "d">>,
       <<"H", "i", "t", "/", "S", "t", "a", "n", "d">>,
       <<"o", "k">>,
       <<"\t", "s", "h", "i", "t", "s", "\n">> >>

RECURSIVE Join(_)
Join(ws) ==
    IF ws = <<>> THEN <<>>
    ELSE IF Len(ws) = 1 THEN Words[ws[1]]
    ELSE Words[ws[1]] \o <<" ">> \o Join(Tail(ws))

\* The response texts: a prefix and up to MaxWords words.
Texts ==
    {Thinks[th] \o Join(ws) :
        th \in 1..Len(Thinks),
        ws \in UNION {[1..n -> 1..Len(Words)] : n \in 0..MaxWords}}

ParseInit ==
    /\ parse_text \in Texts
    /\ parsed = <<>>

\* process_player_llm_response(parse_text), as far as the action it resolves
ParsePlayer ==
    /\ parsed' = <<"player", player_action(parse_text)>>
    /\ UNCHANGED parse_text
    /\ UNCHANGED not_parse

\* process_dealer_llm_response(parse_text), as far as the action it resolves
ParseDealer ==
    /\ parsed' = <<"dealer", dealer_action(parse_text)>>
    /\ UNCHANGED parse_text
    /\ UNCHANGED not_parse

(***************************************************************************)
(* GameStats (src/connect4/game_stats.py, src/llm_blackjack/game_stats.py) *)
(***************************************************************************)

\* The most matches recorded.
MaxMatches == 3

\* _create_default_stats: "players", a dict in insertion order, as a
\* sequence of entries.
default_players ==
    << [player |-> "human", wins |-> 0, losses |-> 0, ties |-> 0],
       [player |-> "gemma3:latest", wins |-> 0, losses |-> 0, ties |-> 0],
       [player |-> "qwen3:latest", wins |-> 0, losses |-> 0, ties |-> 0],
       [player |-> "deepseek-r1:8b", wins |-> 0, losses |-> 0, ties |-> 0] >>

\* player_type not in self.stats["players"]: a new entry with zero counts.
with_player(players, player) ==
    IF \E k \in 1..Len(players) : players[k].player = player
    THEN players
    ELSE Append(players, [player |-> player, wins |-> 0, losses |-> 0, ties |-> 0])

\* self.stats["players"][player][field] += 1
plus_one(players, player, field) ==
    [k \in 1..Len(players) |->
        IF players[k].player = player
        THEN [players[k] EXCEPT ![field] = @ + 1]
        ELSE players[k]]

\* record_match counting a decided match for its winner only.
record_match_WinnerOnly(players, player1, player2, match_winner) ==
    LET known == with_player(with_player(players, player1), player2)
    IN IF match_winner = 0
       THEN plus_one(plus_one(known, player1, "ties"), player2, "ties")
       ELSE IF match_winner = 1 THEN plus_one(known, player1, "wins")
       ELSE plus_one(known, player2, "wins")

\* Connect 4 GameStats.record_match: the players it leaves.
record_match(players, player1, player2, match_winner) ==
    LET known == with_player(with_player(players, player1), player2)
    IN IF match_winner = 0
       THEN plus_one(plus_one(known, player1, "ties"), player2, "ties")
       ELSE IF match_winner = 1
       THEN plus_one(plus_one(known, player1, "wins"), player2, "losses")
       ELSE plus_one(plus_one(known, player1, "losses"), player2, "wins")

\* Blackjack GameStats.record_match: the identifier the match is counted for
bj_player(player_type, player_model) ==
    IF player_type = "llm" THEN player_model ELSE "human"

\* and the players it leaves.
bj_record_match(players, player_type, player_model, match_winner) ==
    LET player == bj_player(player_type, player_model)
        known == with_player(players, player)
    IN IF match_winner = "player" THEN plus_one(known, player, "wins")
       ELSE IF match_winner = "dealer" THEN plus_one(known, player, "losses")
       ELSE plus_one(known, player, "ties")

RECURSIVE GCD(_, _)
GCD(a, b) == IF b = 0 THEN a ELSE GCD(b, a % b)

\* wins / total_games, a float: the quotient in lowest terms <<n, d>>; two
\* quotients are the same float exactly when their lowest terms agree.
Quotient(a, b) == <<a \div GCD(a, b), b \div GCD(a, b)>>

\* win_rate = 0
Zero == <<0, 1>>

\* x < y for quotients
Less(x, y) == x[1] * y[2] < y[1] * x[2]

\* The entry get_leaderboard makes for one player, counting the ties out of
\* the games.
entry_NoTies(st) ==
    LET total_games == st.wins + st.losses + st.ties
    IN [player |-> st.player, wins |-> st.wins, losses |-> st.losses,
        ties |-> st.ties, total_games |-> total_games,
        win_rate |-> IF st.wins + st.losses > 0
                     THEN Quotient(st.wins, st.wins + st.losses) ELSE Zero]

\* The entry get_leaderboard makes for one player (lines 99-112).
entry(st) ==
    LET total_games == st.wins + st.losses + st.ties
    IN [player |-> st.player, wins |-> st.wins, losses |-> st.losses,
        ties |-> st.ties, total_games |-> total_games,
        win_rate |-> IF total_games > 0
                     THEN Quotient(st.wins, total_games) ELSE Zero]

\* sorted(..., key=win_rate, reverse=True): stable, so an entry goes behind
\* the entries before it whose win_rate is not less.
RECURSIVE sorted_by_win_rate(_)
sorted_by_win_rate(lb) ==
    IF lb = <<>> THEN <<>>
    ELSE LET x == lb[Len(lb)]
             front == sorted_by_win_rate(SubSeq(lb, 1, Len(lb) - 1))
             keep == Cardinality({k \in 1..Len(front) :
                                     ~Less(front[k].win_rate, x.win_rate)})
         IN SubSeq(front, 1, keep) \o <<x>> \o SubSeq(front, keep + 1, Len(front))

get_leaderboard(players) ==
    sorted_by_win_rate([k \in 1..Len(players) |-> entry(players[k])])

\* The seat assignments the Connect 4 driver records, and the player types
\* and models the Blackjack driver records.
SeatTypes == {"human", "llm"}
PlayerModels == {<<"human", "None">>, <<"llm", "gemma3:latest">>,
                 <<"monte_carlo", "monte_carlo">>, <<"deep_q", "deep_q">>}

StatsInit ==
    /\ stats_players = default_players
    /\ stats_matches = <<>>
    /\ stats_call = <<"__init__">>

RecordMatch(player1, player2, match_winner) ==
    /\ Len(stats_matches) < MaxMatches
    /\ stats_players' = record_match(stats_players, player1, player2,
                                     match_winner)
    /\ stats_matches' = Append(stats_matches,
                               [player1 |-> player1, player2 |-> player2,
                                winner |-> match_winner])
    /\ stats_call' = <<"record_match">>
    /\ UNCHANGED not_stats

BJRecordMatch(player_type, player_model, match_winner) ==
    /\ Len(stats_matches) < MaxMatches
    /\ stats_players' = bj_record_match(stats_players, player_type, player_model,
                                        match_winner)
    /\ stats_matches' = Append(stats_matches,
                               [player |-> bj_player(player_type, player_model),
                                winner |-> match_winner])
    /\ stats_call' = <<"record_match", player_type, player_model, match_winner>>
    /\ UNCHANGED not_stats

GetLeaderboard ==
    /\ stats_call' = <<"get_leaderboard", get_leaderboard(stats_players)>>
    /\ UNCHANGED <<stats_players, stats_matches>>
    /\ UNCHANGED not_stats

(***************************************************************************)
(* LLMInterface (src/connect4/llm_interface.py)                            *)
(***************************************************************************)

\* The most messages a transcript holds when get_response is called alone.
MaxMessages == 4

\* A JSON string with text t, and JSON null (None).
Str(t) == <<"str", t>>
NoneValue == <<"None">>

\* Connect4Game.get_player_llm_prompt: the text shows the board and names
\* the player to move.
get_player_llm_prompt(g) == <<"prompt", g.current_player, g.board>>

\* What the endpoint call can come to: a response with a status code and a
\* body, or an exception of requests.post.  The bodies: a message with a
\* content (a string or null), an object without message, an object whose
\* message is null, and a body that is no JSON.
Endpoint(kind, status_code, content) ==
    [kind |-> kind, status_code |-> status_code, content |-> content]

Replies ==
    {Endpoint("content", 200, Str(C4Responses[i])) : i \in 1..Len(C4Responses)}

Failures ==
    {Endpoint("content", 200, NoneValue),
     Endpoint("message_null", 200, NoneValue),
     Endpoint("malformed", 200, NoneValue),
     Endpoint("content", 500, Str(<<>>)),
     Endpoint("Timeout", 0, NoneValue),
     Endpoint("ConnectionError", 0, NoneValue)}

Outcomes == Replies \cup {Endpoint("no_message", 200, NoneValue)} \cup Failures

\* _get_fallback_response: str(random.randint(0, 6)), digit being the number
\* drawn.
get_fallback_response(digit) == Str(<<Digits06[digit + 1]>>)

\* Lines 88-94: the content without its thinking section, for each of the
\* contents, computed once.
ResponseContents ==
    [content \in {C4Responses[i] : i \in 1..Len(C4Responses)} |->
        IF /\ Contains(content, OpenThink)
           /\ Contains(content, CloseThink)
           /\ think_match(content) # <<>>
        THEN Strip(Replace(content, think_match(content)))
        ELSE content]

response_content(content) == ResponseContents[content]

\* What get_response returns and leaves: the text, the metadata (status,
\* fallback, whether it holds an error), whether an exception left the
\* method, the transcript left and the number of messages that were sent
\* (the transcript up to the prompt).
Reply(text, status, fallback, error, history, messages) ==
    [text |-> text, status |-> status, fallback |-> fallback, error |-> error,
     raised |-> FALSE, history |-> history, sent |-> Len(messages)]

\* What the record of a call keeps of it.
Kept(r) ==
    [text |-> r.text, status |-> r.status, fallback |-> r.fallback,
     error |-> r.error, raised |-> r.raised, sent |-> r.sent]

\* LLMInterface.get_response(prompt) on the transcript history, the endpoint
\* call coming to o and random.randint giving digit.
get_response(history, prompt, o, digit) ==
    LET sent == Append(history, [role |-> "user", content |-> prompt])
        fallback == get_fallback_response(digit)
    IN IF o.kind = "Timeout"
       THEN Reply(fallback, "timeout", TRUE, TRUE, sent, sent)
       ELSE IF o.kind = "ConnectionError"
       THEN Reply(fallback, "exception", TRUE, TRUE, sent, sent)
       ELSE IF o.status_code # 200
       THEN Reply(fallback, "error", TRUE, TRUE, sent, sent)
       ELSE IF o.kind = "malformed"
       THEN \* response.json() raises
            Reply(fallback, "exception", TRUE, TRUE, sent, sent)
       ELSE IF o.kind = "message_null"
       THEN \* None.get raises
            Reply(fallback, "exception", TRUE, TRUE, sent, sent)
       ELSE LET content == IF o.kind = "no_message" THEN Str(<<>>) ELSE o.content
                replied == Append(sent, [role |-> "assistant",
                                         content |-> content])
            IN IF content[1] # "str"
               THEN \* "<think>" in None raises, after the append of line 83
                    Reply(fallback, "exception", TRUE, TRUE, replied, sent)
               ELSE Reply(Str(response_content(content[2])), "success",
                             FALSE, FALSE, replied, sent)

\* The prompts given when get_response is called alone: the first prompt of
\* either player.
Prompts ==
    {get_player_llm_prompt(reset_game),
     get_player_llm_prompt([reset_game EXCEPT !.current_player = 2])}

\* LLMInterface.__init__
LLMInit ==
    /\ llm_history = <<>>
    /\ llm_call = <<"__init__">>

GetResponse(prompt, o, digit) ==
    /\ Len(llm_history) + 2 <= MaxMessages
    /\ \E r \in {get_response(llm_history, prompt, o, digit)} :
          /\ llm_history' = r.history
          /\ llm_call' = <<"get_response", o, Kept(r)>>
    /\ UNCHANGED not_llm

ResetConversation ==
    /\ llm_history' = <<>>
    /\ llm_call' = <<"reset_conversation">>
    /\ UNCHANGED not_llm

(***************************************************************************)
(* The Connect 4 driver (src/connect4/app.py), one request at a time       *)
(***************************************************************************)

\* The most pieces on the board when a move is requested, the most failed
\* endpoint calls in one match, and the most messages in the display log
\* when a move is requested.
MaxAppMoves == 7
MaxFallbacks == 1
MaxLog == 18

\* The columns the make-move requests carry, the endpoint outcomes of the
\* driver's runs (two replies: no column, a column after two thinking
\* sections; a null content; a timeout), each with the digits
\* random.randint can give when it is called.
AppColumns == {3, 4}
AppOutcomes ==
    {Endpoint("content", 200, Str(C4Responses[i])) : i \in {3, 8}}
        \cup {Endpoint("content", 200, NoneValue),
              Endpoint("Timeout", 0, NoneValue)}
FallbackDigits == {0, 3}
Draws ==
    {<<o, 0>> : o \in AppOutcomes \ Failures}
        \cup ((AppOutcomes \cap Failures) \X FallbackDigits)

\* The calls on the transcript that went without a string reply.
Fallbacks(history) ==
    Cardinality({k \in 1..Len(history) :
        /\ history[k].role = "user"
        /\ \/ k = Len(history)
           \/ history[k + 1].role = "user"
           \/ history[k + 1].content = NoneValue})

\* No get_ai_move in the handler.
NoAIMove == [player |-> 0, column |-> NoColumn, success |-> FALSE]

\* think_match.group(1).strip() of get_ai_move (lines 194-198): the thinking
\* content of the text, empty when there is none.
thinking_content(t) ==
    IF /\ Contains(t, OpenThink)
       /\ Contains(t, CloseThink)
       /\ think_match(t) # <<>>
    THEN Strip(SubSeq(think_match(t), Len(OpenThink) + 1,
                      Len(think_match(t)) - Len(CloseThink)))
    ELSE <<>>

\* The texts get_response returns, and for each whether get_ai_move finds a
\* thinking content in it and the column process_player_llm_response reads
\* from it, computed once.
ReturnedTexts ==
    {ResponseContents[C4Responses[i]] : i \in 1..Len(C4Responses)}
        \cup {<<Digits06[d]>> : d \in 1..7}
HasThinking == [t \in ReturnedTexts |-> thinking_content(t) # <<>>]
ReturnedColumns == [t \in ReturnedTexts |-> column_match(clean_response(t))]

\* get_ai_move() (lines 166-240) on the engine g, the transcript history,
\* the display log and the number of response times: what it leaves.
get_ai_move(g, history, log, times, o, digit) ==
    LET r == get_response(history, get_player_llm_prompt(g), o, digit)
        llm_response == r.text[2]
        log1 == Append(log, "player_prompt")
        log2 == IF HasThinking[llm_response]
                THEN Append(log1, "player_thinking") ELSE log1
        log3 == Append(log2, "player_response")
        result == c4_process_player_llm_response(
                      g, ReturnedColumns[llm_response])
    IN [g |-> result.g,
        r |-> r,
        log |-> Append(log3, IF result.success THEN "player_action" ELSE "error"),
        times |-> times + 1,
        result |-> [player |-> g.current_player, column |-> result.column,
                    success |-> result.success]]

\* The seat type of the player to move.
player_type(g, p1, p2) == IF g.current_player = 1 THEN p1 ELSE p2

\* Lines 127-139 and 147-159: the game result in the display log and the
\* match in the statistics, when the game is over.
recorded(g, log, players, matches, p1, p2) ==
    IF g.game_over
    THEN [log |-> Append(log, "game_result"),
          players |-> record_match(players, p1, p2, g.winner),
          matches |-> Append(matches, [player1 |-> p1, player2 |-> p2,
                                       winner |-> g.winner]),
          call |-> <<"record_match">>]
    ELSE [log |-> log, players |-> players, matches |-> matches,
          call |-> stats_call]

\* The module globals as created (lines 16-28).
AppInit ==
    /\ player1_type = "human"
    /\ player2_type = "llm"
    /\ conversation_history = <<>>
    /\ llm_response_times = 0
    /\ app_call = <<"__init__">>
    /\ ai_move = NoAIMove

\* POST /api/start-game with the seat types p1 and p2 (lines 48-91).
AppStartGame(p1, p2, o, digit) ==
    /\ stats_matches = <<>>
    /\ player1_type' = p1
    /\ player2_type' = p2
    /\ app_call' = <<"start_game", 200>>
    /\ LET log == <<"game_action", "game_state">>
       IN IF p1 = "llm"
          THEN \E a \in {get_ai_move(reset_game, <<>>, log, 0, o, digit)} :
                  /\ board' = a.g.board
                  /\ current_player' = a.g.current_player
                  /\ game_over' = a.g.game_over
                  /\ winner' = a.g.winner
                  /\ last_move' = a.g.last_move
                  /\ moves_count' = a.g.moves_count
                  /\ c4_call' = <<"process_player_llm_response", 0,
                                  a.result.column, a.result.success>>
                  /\ llm_history' = a.r.history
                  /\ llm_call' = <<"get_response", o, Kept(a.r)>>
                  /\ conversation_history' = a.log
                  /\ llm_response_times' = a.times
                  /\ ai_move' = a.result
          ELSE /\ board' = reset_game.board
               /\ current_player' = reset_game.current_player
               /\ game_over' = reset_game.game_over
               /\ winner' = reset_game.winner
               /\ last_move' = reset_game.last_move
               /\ moves_count' = reset_game.moves_count
               /\ c4_call' = <<"reset_game">>
               /\ llm_history' = <<>>
               /\ llm_call' = <<"reset_conversation">>
               /\ conversation_history' = log
               /\ llm_response_times' = 0
               /\ ai_move' = NoAIMove
    /\ c4_start' = 0
    /\ UNCHANGED <<stats_vars, bj_vars, parse_vars, rl_vars, bjapp_vars, thread_vars>>

\* POST /api/make-move without a column (lines 100-104).
AppMakeMoveNone ==
    /\ app_call' = <<"make_move", None, 400>>
    /\ ai_move' = NoAIMove
    /\ UNCHANGED <<player1_type, player2_type, conversation_history,
                   llm_response_times>>
    /\ UNCHANGED <<c4_vars, llm_vars, stats_vars, bj_vars, parse_vars, rl_vars, bjapp_vars,
                   thread_vars>>

\* POST /api/make-move with a column (lines 93-164).
AppMakeMove(column, o, digit) ==
    /\ moves_count < MaxAppMoves
    /\ Len(conversation_history) < MaxLog
    /\ LET log1 == IF player_type(C4Game, player1_type, player2_type) = "human"
                   THEN Append(conversation_history, "player_action")
                   ELSE conversation_history
           m == make_move(C4Game, column)
       IN IF ~m.ok
          THEN /\ app_call' = <<"make_move", column, 400>>
               /\ ai_move' = NoAIMove
               /\ conversation_history' = log1
               /\ c4_call' = <<"make_move", column, FALSE>>
               /\ UNCHANGED <<c4_fields, c4_start, llm_response_times>>
               /\ UNCHANGED <<llm_vars, stats_vars>>
          ELSE IF m.g.game_over
                  \/ player_type(m.g, player1_type, player2_type) # "llm"
          THEN \E s \in {recorded(m.g, log1, stats_players, stats_matches,
                                  player1_type, player2_type)} :
                  /\ app_call' = <<"make_move", column, 200>>
                  /\ ai_move' = NoAIMove
                  /\ board' = m.g.board
                  /\ current_player' = m.g.current_player
                  /\ game_over' = m.g.game_over
                  /\ winner' = m.g.winner
                  /\ last_move' = m.g.last_move
                  /\ moves_count' = m.g.moves_count
                  /\ c4_call' = <<"make_move", column, TRUE>>
                  /\ conversation_history' = s.log
                  /\ stats_players' = s.players
                  /\ stats_matches' = s.matches
                  /\ stats_call' = s.call
                  /\ UNCHANGED <<c4_start, llm_response_times, llm_vars>>
          ELSE /\ o \in Failures => Fallbacks(llm_history) < MaxFallbacks
               /\ \E a \in {get_ai_move(m.g, llm_history, log1,
                                        llm_response_times, o, digit)} :
                  \E s \in {recorded(a.g, a.log, stats_players, stats_matches,
                                     player1_type, player2_type)} :
                     /\ app_call' = <<"make_move", column, 200>>
                     /\ ai_move' = a.result
                     /\ board' = a.g.board
                     /\ current_player' = a.g.current_player
                     /\ game_over' = a.g.game_over
                     /\ winner' = a.g.winner
                     /\ last_move' = a.g.last_move
                     /\ moves_count' = a.g.moves_count
                     /\ c4_call' = <<"process_player_llm_response", 0,
                                     a.result.column, a.result.success>>
                     /\ llm_history' = a.r.history
                     /\ llm_call' = <<"get_response", o, Kept(a.r)>>
                     /\ conversation_history' = s.log
                     /\ llm_response_times' = a.times
                     /\ stats_players' = s.players
                     /\ stats_matches' = s.matches
                     /\ stats_call' = s.call
                     /\ UNCHANGED c4_start
    /\ UNCHANGED <<player1_type, player2_type>>
    /\ UNCHANGED <<bj_vars, parse_vars, rl_vars, bjapp_vars, thread_vars>>

(***************************************************************************)
(* The Connect 4 driver with requests handled by concurrent threads        *)
(***************************************************************************)

\* The threads handling requests, and the most pieces on the board when a
\* thread takes a move request.
NumThreads == 2
MaxThreadMoves == 2
Threads == 1..NumThreads

\* api_lock not held.
Free == 0

\* A thread between requests.
Idle ==
    [pc |-> "idle", column |-> NoColumn, p1 |-> "human", p2 |-> "human",
     player |-> 0]

\* Thread t at pc of its handler, with the column or the seat types of its
\* request and the current_player get_ai_move read.
At(t, pc, column, p1, p2, player) ==
    [thread EXCEPT ![t] = [pc |-> pc, column |-> column, p1 |-> p1,
                           p2 |-> p2, player |-> player]]

\* threading.Lock() (line 31), no request being handled.
ThreadsInit ==
    /\ thread = [t \in Threads |-> Idle]
    /\ api_lock = Free

\* The endpoint outcomes of the concurrent runs.
ThreadDraws ==
    {d \in Draws : d[1].kind = "Timeout" \/ d[1].content # NoneValue}

\* start_game, line 54: the lock is taken.
SGAcquire(t, p1, p2) ==
    /\ thread[t].pc = "idle"
    /\ api_lock = Free
    /\ stats_matches = <<>>
    /\ api_lock' = t
    /\ thread' = At(t, "sg_lock", NoColumn, p1, p2, 0)
    /\ UNCHANGED <<c4_vars, llm_vars, app_vars, stats_vars, bj_vars, parse_vars, rl_vars, bjapp_vars>>

\* start_game, lines 55-57: the seat types are set and the lock is given
\* back.
SGTypes(t) ==
    /\ thread[t].pc = "sg_lock"
    /\ player1_type' = thread[t].p1
    /\ player2_type' = thread[t].p2
    /\ api_lock' = Free
    /\ thread' = At(t, "sg_reset", NoColumn, thread[t].p1, thread[t].p2, 0)
    /\ UNCHANGED <<conversation_history, llm_response_times, app_call, ai_move>>
    /\ UNCHANGED <<c4_vars, llm_vars, stats_vars, bj_vars, parse_vars, rl_vars, bjapp_vars>>

\* get_ai_move up to the endpoint call (app.py 171-184, llm_interface.py
\* 43-62): the prompt for the player to move, in the display log and in the
\* transcript.
ai_request(g, history, log) ==
    [history |-> Append(history, [role |-> "user",
                                  content |-> get_player_llm_prompt(g)]),
     log |-> Append(log, "player_prompt"),
     player |-> g.current_player]

\* get_ai_move from the end of the endpoint call (llm_interface.py 68-138,
\* app.py 186-240), on the engine, the transcript and the display log as
\* they are by then.
ai_reply(g, history, log, times, player, o, digit) ==
    LET r == get_response(<<>>, get_player_llm_prompt(g), o, digit)
        llm_response == r.text[2]
        log2 == IF HasThinking[llm_response]
                THEN Append(log, "player_thinking") ELSE log
        log3 == Append(log2, "player_response")
        result == c4_process_player_llm_response(
                      g, ReturnedColumns[llm_response])
    IN [g |-> result.g,
        r |-> r,
        history |-> history \o SubSeq(r.history, 2, Len(r.history)),
        log |-> Append(log3, IF result.success THEN "player_action" ELSE "error"),
        times |-> times + 1,
        result |-> [player |-> player, column |-> result.column,
                    success |-> result.success]]

\* start_game, lines 60-85, outside the lock: the transcript, the display
\* log, the response times and the engine are reset; with the text agent on
\* seat 1, get_ai_move sends its request.
SGReset(t) ==
    /\ thread[t].pc = "sg_reset"
    /\ board' = reset_game.board
    /\ current_player' = reset_game.current_player
    /\ game_over' = reset_game.game_over
    /\ winner' = reset_game.winner
    /\ last_move' = reset_game.last_move
    /\ moves_count' = reset_game.moves_count
    /\ c4_call' = <<"reset_game">>
    /\ c4_start' = 0
    /\ llm_response_times' = 0
    /\ IF player1_type = "llm"
       THEN \E q \in {ai_request(reset_game, <<>>,
                                 <<"game_action", "game_state">>)} :
               /\ llm_history' = q.history
               /\ llm_call' = <<"reset_conversation">>
               /\ conversation_history' = q.log
               /\ thread' = At(t, "sg_request", NoColumn, thread[t].p1,
                               thread[t].p2, q.player)
               /\ UNCHANGED <<app_call, ai_move>>
       ELSE /\ llm_history' = <<>>
            /\ llm_call' = <<"reset_conversation">>
            /\ conversation_history' = <<"game_action", "game_state">>
            /\ app_call' = <<"start_game", 200>>
            /\ ai_move' = NoAIMove
            /\ thread' = [thread EXCEPT ![t] = Idle]
    /\ UNCHANGED <<player1_type, player2_type, api_lock>>
    /\ UNCHANGED <<stats_vars, bj_vars, parse_vars, rl_vars, bjapp_vars>>

\* start_game, lines 85-91: the endpoint call of get_ai_move ends, the
\* response is processed and the request answered.
SGReply(t, o, digit) ==
    /\ thread[t].pc = "sg_request"
    /\ \E a \in {ai_reply(C4Game, llm_history, conversation_history,
                          llm_response_times, thread[t].player, o, digit)} :
          /\ board' = a.g.board
          /\ current_player' = a.g.current_player
          /\ game_over' = a.g.game_over
          /\ winner' = a.g.winner
          /\ last_move' = a.g.last_move
          /\ moves_count' = a.g.moves_count
          /\ c4_call' = <<"process_player_llm_response", 0,
                          a.result.column, a.result.success>>
          /\ llm_history' = a.history
          /\ llm_call' = <<"get_response", o, Kept(a.r)>>
          /\ conversation_history' = a.log
          /\ llm_response_times' = a.times
          /\ ai_move' = a.result
    /\ app_call' = <<"start_game", 200>>
    /\ thread' = [thread EXCEPT ![t] = Idle]
    /\ UNCHANGED <<player1_type, player2_type, api_lock, c4_start>>
    /\ UNCHANGED <<stats_vars, bj_vars, parse_vars, rl_vars, bjapp_vars>>

\* make_move, lines 99-101: the lock is taken.
MMAcquire(t, column) ==
    /\ thread[t].pc = "idle"
    /\ api_lock = Free
    /\ moves_count < MaxThreadMoves
    /\ api_lock' = t
    /\ thread' = At(t, "mm_lock", column, "human", "human", 0)
    /\ UNCHANGED <<c4_vars, llm_vars, app_vars, stats_vars, bj_vars, parse_vars, rl_vars, bjapp_vars>>

\* make_move, lines 106-164, under the lock: the move is made; the request
\* is answered (and the lock given back) unless the text agent is to move
\* next, when get_ai_move sends its request.
MMMove(t) ==
    /\ thread[t].pc = "mm_lock"
    /\ LET column == thread[t].column
           log1 == IF player_type(C4Game, player1_type, player2_type) = "human"
                   THEN Append(conversation_history, "player_action")
                   ELSE conversation_history
           m == make_move(C4Game, column)
       IN IF ~m.ok
          THEN /\ app_call' = <<"make_move", column, 400>>
               /\ ai_move' = NoAIMove
               /\ conversation_history' = log1
               /\ c4_call' = <<"make_move", column, FALSE>>
               /\ api_lock' = Free
               /\ thread' = [thread EXCEPT ![t] = Idle]
               /\ UNCHANGED <<c4_fields, llm_response_times>>
               /\ UNCHANGED <<llm_vars, stats_vars>>
          ELSE /\ board' = m.g.board
               /\ current_player' = m.g.current_player
               /\ game_over' = m.g.game_over
               /\ winner' = m.g.winner
               /\ last_move' = m.g.last_move
               /\ moves_count' = m.g.moves_count
               /\ c4_call' = <<"make_move", column, TRUE>>
               /\ UNCHANGED llm_response_times
               /\ IF m.g.game_over
                     \/ player_type(m.g, player1_type, player2_type) # "llm"
                  THEN \E s \in {recorded(m.g, log1, stats_players,
                                          stats_matches, player1_type,
                                          player2_type)} :
                          /\ app_call' = <<"make_move", column, 200>>
                          /\ ai_move' = NoAIMove
                          /\ conversation_history' = s.log
                          /\ stats_players' = s.players
                          /\ stats_matches' = s.matches
                          /\ stats_call' = s.call
                          /\ api_lock' = Free
                          /\ thread' = [thread EXCEPT ![t] = Idle]
                          /\ UNCHANGED llm_vars
                  ELSE \E q \in {ai_request(m.g, llm_history, log1)} :
                          /\ llm_history' = q.history
                          /\ conversation_history' = q.log
                          /\ thread' = At(t, "mm_request", column,
                                          "human", "human", q.player)
                          /\ UNCHANGED <<app_call, ai_move, llm_call, api_lock>>
                          /\ UNCHANGED stats_vars
    /\ UNCHANGED <<player1_type, player2_type, c4_start>>
    /\ UNCHANGED <<bj_vars, parse_vars, rl_vars, bjapp_vars>>

\* make_move, lines 144-164: the endpoint call of get_ai_move ends, the
\* response is processed, the result recorded when the game is over, and
\* the lock given back.
MMReply(t, o, digit) ==
    /\ thread[t].pc = "mm_request"
    /\ \E a \in {ai_reply(C4Game, llm_history, conversation_history,
                          llm_response_times, thread[t].player, o, digit)} :
       \E s \in {recorded(a.g, a.log, stats_players, stats_matches,
                          player1_type, player2_type)} :
          /\ board' = a.g.board
          /\ current_player' = a.g.current_player
          /\ game_over' = a.g.game_over
          /\ winner' = a.g.winner
          /\ last_move' = a.g.last_move
          /\ moves_count' = a.g.moves_count
          /\ c4_call' = <<"process_player_llm_response", 0,
                          a.result.column, a.result.success>>
          /\ llm_history' = a.history
          /\ llm_call' = <<"get_response", o, Kept(a.r)>>
          /\ conversation_history' = s.log
          /\ llm_response_times' = a.times
          /\ ai_move' = a.result
          /\ stats_players' = s.players
          /\ stats_matches' = s.matches
          /\ stats_call' = s.call
    /\ app_call' = <<"make_move", thread[t].column, 200>>
    /\ api_lock' = Free
    /\ thread' = [thread EXCEPT ![t] = Idle]
    /\ UNCHANGED <<player1_type, player2_type, c4_start>>
    /\ UNCHANGED <<bj_vars, parse_vars, rl_vars, bjapp_vars>>

(***************************************************************************)
(* The training environment (train_rl_agents.py)                           *)
(***************************************************************************)

ActStand == 0
ActHit == 1
Actions == {ActStand, ActHit}

\* _draw_card, for the outcome n of random.randint(1, 13)
draw_card(n) == IF n > 10 THEN 10 ELSE IF n = 1 THEN 11 ELSE n

\* The outcomes of randint explored: an ace and a face card.
Rolls == {1, 12}

RECURSIVE SumOf(_)
SumOf(cards) == IF cards = <<>> THEN 0 ELSE Head(cards) + SumOf(Tail(cards))

\* The while loop of _get_sum.
RECURSIVE SumLoop(_, _)
SumLoop(total, num_aces) ==
    IF total > 21 /\ num_aces > 0
    THEN SumLoop(total - 10, num_aces - 1)
    ELSE total

\* _get_sum
get_sum(cards) ==
    SumLoop(SumOf(cards), Cardinality({i \in 1..Len(cards) : cards[i] = 11}))

\* _get_state of an environment e: <<player_sum, dealer_visible_card,
\* usable_ace>>; _get_player_sum is get_sum of the player's cards.
get_state(e) ==
    <<get_sum(e.player_cards), e.dealer_visible_card,
      (\E i \in 1..Len(e.player_cards) : e.player_cards[i] = 11)
          /\ get_sum(e.player_cards) <= 21>>

\* reset, for the four cards drawn (the value returned is get_state of it)
env_reset(c1, c2, c3, c4) ==
    [player_cards |-> <<c1, c2>>, dealer_visible_card |-> c3,
     dealer_hidden_card |-> c4, done |-> FALSE, reward |-> 0]

\* The hands the dealer loop of step can end with, drawing from the rolls.
RECURSIVE DealerFinals(_, _)
DealerFinals(dealer_cards, rolls) ==
    IF get_sum(dealer_cards) < 17
    THEN UNION {DealerFinals(Append(dealer_cards, draw_card(n)), rolls)
                : n \in rolls}
    ELSE {dealer_cards}

\* The HIT branch of step busting at 21 already.
step_hit_BustAt21(e, card) ==
    LET cards == Append(e.player_cards, card)
        bust == get_sum(cards) >= 21
    IN [e EXCEPT !.player_cards = cards, !.done = bust,
                 !.reward = IF bust THEN -1 ELSE 0]

\* The HIT branch of step, for the card drawn.
step_hit(e, card) ==
    LET cards == Append(e.player_cards, card)
        bust == get_sum(cards) > 21
    IN [e EXCEPT !.player_cards = cards, !.done = bust,
                 !.reward = IF bust THEN -1 ELSE 0]

\* The STAND branch of step with done left as it was.
step_stand_NotDone(e, dealer_cards) ==
    LET dealer_sum == get_sum(dealer_cards)
        player_sum == get_sum(e.player_cards)
    IN [e EXCEPT !.reward = IF dealer_sum > 21 THEN 1
                            ELSE IF player_sum > dealer_sum THEN 1
                            ELSE IF player_sum < dealer_sum THEN -1
                            ELSE 0]

\* The STAND branch of step, for the hand the dealer ends with.
step_stand(e, dealer_cards) ==
    LET dealer_sum == get_sum(dealer_cards)
        player_sum == get_sum(e.player_cards)
    IN [e EXCEPT !.done = TRUE,
                 !.reward = IF dealer_sum > 21 THEN 1
                            ELSE IF player_sum > dealer_sum THEN 1
                            ELSE IF player_sum < dealer_sum THEN -1
                            ELSE 0]

\* step: the outcomes [env |-> the environment after the step, dealer |-> the
\* dealer's final hand (empty on a HIT)]; the step returns get_state(env),
\* env.reward and env.done.
step(e, action, rolls) ==
    IF action = ActHit
    THEN {[env |-> step_hit(e, draw_card(n)), dealer |-> <<>>] : n \in rolls}
    ELSE {[env |-> step_stand(e, d), dealer |-> d]
          : d \in DealerFinals(<<e.dealer_visible_card, e.dealer_hidden_card>>,
                               rolls)}

\* What a call on the environment leaves in env_call.
Called(op, action, dealer, e) ==
    [op |-> op, action |-> action, dealer |-> dealer, state |-> get_state(e),
     reward |-> e.reward, done |-> e.done]

\* BlackjackEnvironment(): reset in __init__.
EnvInit ==
    \E n1 \in Rolls, n2 \in Rolls, n3 \in Rolls, n4 \in Rolls :
        /\ env = env_reset(draw_card(n1), draw_card(n2), draw_card(n3),
                           draw_card(n4))
        /\ env_call = Called("reset", ActStand, <<>>, env)

\* reset, as the callers call it: to start the episode after one that is done.
EnvReset ==
    /\ env.done
    /\ \E n1 \in Rolls, n2 \in Rolls, n3 \in Rolls, n4 \in Rolls :
          /\ env' = env_reset(draw_card(n1), draw_card(n2), draw_card(n3),
                              draw_card(n4))
          /\ env_call' = Called("reset", ActStand, <<>>, env')
    /\ UNCHANGED <<train_vars, serve_vars, dq_vars>>
    /\ UNCHANGED not_rl

\* A step of an episode: the callers step until done (lines 133 and 220).
EnvStep(action) ==
    /\ ~env.done
    /\ \E o \in step(env, action, Rolls) :
          /\ env' = o.env
          /\ env_call' = Called("step", action, o.dealer, o.env)
    /\ UNCHANGED <<train_vars, serve_vars, dq_vars>>
    /\ UNCHANGED not_rl

(***************************************************************************)
(* train_monte_carlo and the MonteCarloAgent that serves                   *)
(***************************************************************************)

\* The number of episodes trained (100000 at line 296), and the number of
\* passes of the loop followed in one episode.
MaxEpisodes == 2
MaxPasses == 2

\* An empty dict.
Empty == [k \in {} |-> 0]

\* d[k] = v
Put(d, k, v) == [x \in DOMAIN d \cup {k} |-> IF x = k THEN v ELSE d[x]]

\* d.get(k, default)
Get(d, k, default) == IF k \in DOMAIN d THEN d[k] ELSE default

\* -float('inf'), which no quotient equals
NegInf == <<-1, 0>>

\* The default policy: hit if sum < 17, stand otherwise (lines 141, 169).
default_action(player_sum) == IF player_sum < 17 THEN ActHit ELSE ActStand

\* sum(l) / len(l)
Mean(l) == Quotient(SumOf(l), Len(l))

\* Lines 171-172: the policy made greedy at state.
greedy(pol, q, state) ==
    IF \/ state \notin DOMAIN pol
       \/ Get(q, <<state, ActStand>>, NegInf) # Get(q, <<state, ActHit>>, NegInf)
    THEN Put(pol, state,
             IF Less(Get(q, <<state, ActHit>>, Zero), Get(q, <<state, ActStand>>, Zero))
             THEN ActStand ELSE ActHit)
    ELSE pol

\* Line 163 updating at every occurrence.
first_occurrence_Every(states, actions, t) == TRUE

\* Line 163: (states[t], actions[t]) occurs at no earlier step.
first_occurrence(states, actions, t) ==
    ~\E i \in 1..(t - 1) : states[i] = states[t] /\ actions[i] = actions[t]

\* Lines 156-172: the loop from step t down to the first step, G being the
\* return after step t, on m = [Q, returns, policy].
RECURSIVE update(_, _, _, _, _, _)
update(states, actions, rewards, t, G, m) ==
    IF t = 0 THEN m
    ELSE LET g == rewards[t] + G
             pair == <<states[t], actions[t]>>
             rets == Append(Get(m.returns, pair, <<>>), g)
             q == Put(m.Q, pair, Mean(rets))
         IN update(states, actions, rewards, t - 1, g,
                   IF first_occurrence(states, actions, t)
                   THEN [Q |-> q, returns |-> Put(m.returns, pair, rets),
                         policy |-> greedy(m.policy, q, states[t])]
                   ELSE m)

\* No file on disk.
NoFile == [present |-> FALSE, policy |-> Empty, Q |-> Empty]

\* No MonteCarloAgent serving.
NoAgent == [op |-> "none", file |-> FALSE, state |-> <<0, 0, FALSE>>,
            explore |-> FALSE, action |-> ActStand]

\* train_monte_carlo up to the reset of the first episode (lines 117-132).
TrainInit ==
    /\ \E n1 \in Rolls, n2 \in Rolls, n3 \in Rolls,
          n4 \in Rolls :
          /\ env = env_reset(draw_card(n1), draw_card(n2), draw_card(n3),
                             draw_card(n4))
          /\ env_call = Called("reset", ActStand, <<>>, env)
    /\ policy = Empty
    /\ Q = Empty
    /\ returns = Empty
    /\ episode_states = <<>>
    /\ episode_actions = <<>>
    /\ episode_rewards = <<>>
    /\ episode = 0

\* One pass of the loop of lines 133-152: an exploring pass takes the action
\* random gave, another the action of the policy.  The runs followed train
\* while no agent serves: an agent is started before the training or after.
MCStep(explore, random) ==
    /\ served_call.op = "none"
    /\ episode < MaxEpisodes
    /\ Len(episode_states) < MaxPasses
    /\ ~env.done
    /\ LET state == get_state(env)
           pol == IF explore \/ state \in DOMAIN policy THEN policy
                  ELSE Put(policy, state, default_action(state[1]))
           action == IF explore THEN random ELSE pol[state]
       IN /\ policy' = pol
          /\ \E o \in step(env, action, Rolls) :
                /\ env' = o.env
                /\ env_call' = Called("step", action, o.dealer, o.env)
                /\ episode_rewards' = Append(episode_rewards, o.env.reward)
          /\ episode_states' = Append(episode_states, state)
          /\ episode_actions' = Append(episode_actions, action)
    /\ UNCHANGED <<Q, returns, episode, serve_vars, dq_vars>>
    /\ UNCHANGED not_rl

\* The end of an episode (lines 154-172) and, when episodes are left, the
\* start of the next one (lines 126-132).
MCUpdate ==
    /\ episode < MaxEpisodes
    /\ env.done
    /\ LET m == update(episode_states, episode_actions, episode_rewards,
                       Len(episode_states), 0,
                       [Q |-> Q, returns |-> returns, policy |-> policy])
       IN /\ Q' = m.Q
          /\ returns' = m.returns
          /\ policy' = m.policy
    /\ episode' = episode + 1
    /\ IF episode + 1 < MaxEpisodes
       THEN /\ \E n1 \in Rolls, n2 \in Rolls, n3 \in Rolls, n4 \in Rolls :
                  /\ env' = env_reset(draw_card(n1), draw_card(n2),
                                      draw_card(n3), draw_card(n4))
                  /\ env_call' = Called("reset", ActStand, <<>>, env')
            /\ episode_states' = <<>>
            /\ episode_actions' = <<>>
            /\ episode_rewards' = <<>>
       ELSE UNCHANGED <<env_vars, episode_states, episode_actions,
                        episode_rewards>>
    /\ UNCHANGED <<serve_vars, dq_vars>>
    /\ UNCHANGED not_rl

\* A BlackjackEnvironment no episode was played on.
NoEnv == env_reset(10, 10, 10, 10)

\* Lines 174-188: the model written to monte_carlo_model.json, and the
\* return, after which the environment and the lists of the last episode
\* are gone.
MCSave ==
    /\ episode = MaxEpisodes
    /\ ~model_file.present
    /\ model_file' =
          [present |-> TRUE,
           policy |-> [k \in {Str(s) : s \in DOMAIN policy} |-> policy[k[2]]],
           Q |-> [k \in {Str(p) : p \in DOMAIN Q} |-> Q[k[2]]]]
    /\ env' = NoEnv
    /\ env_call' = Called("reset", ActStand, <<>>, NoEnv)
    /\ episode_states' = <<>>
    /\ episode_actions' = <<>>
    /\ episode_rewards' = <<>>
    /\ UNCHANGED <<policy, Q, returns, episode, served_policy, served_call,
                   dq_vars>>
    /\ UNCHANGED not_rl

\* MonteCarloAgent.load_model: the policy the agent has after it, whatever
\* the file holds (the try block is a pass).
load_model(file) == Empty

\* How many get_action calls are followed on one agent.
MaxServed == 1

\* The hands and dealer cards _parse_state hands to get_action.
ServedHands == {<<10, 10>>, <<11, 11>>}
ServedDealer == {10, 11}

\* MonteCarloAgent.get_action: [state, action, policy]; explore tells
\* whether random.random() was below epsilon, random the action
\* random.choice then gave.
get_action(pol, player_cards, dealer_visible_card, explore, random) ==
    LET usable_ace == (\E i \in 1..Len(player_cards) : player_cards[i] = 11)
                         /\ SumOf(player_cards) > 21
        player_sum == IF usable_ace THEN SumOf(player_cards) - 10
                      ELSE SumOf(player_cards)
        state == <<player_sum, dealer_visible_card, usable_ace>>
        known == IF state \in DOMAIN pol THEN pol
                 ELSE Put(pol, state, default_action(player_sum))
    IN IF player_sum >= 21
       THEN [state |-> state, action |-> ActStand, policy |-> pol]
       ELSE IF explore
       THEN [state |-> state, action |-> random, policy |-> pol]
       ELSE [state |-> state, action |-> known[state], policy |-> known]

\* MonteCarloAgent(): the serving process starts, before any training or
\* after the training has saved its model; file tells whether the model
\* file was there when the agent was constructed.
NewAgent ==
    /\ (episode = 0 /\ episode_states = <<>>) \/ model_file.present
    /\ served_policy' = load_model(model_file)
    /\ served_call' = [NoAgent EXCEPT !.op = "__init__",
                                      !.file = model_file.present]
    /\ UNCHANGED <<env_vars, train_vars, model_file, dq_vars>>
    /\ UNCHANGED not_rl

GetAction(player_cards, dealer_visible_card, explore, random) ==
    /\ served_call.op # "none"
    /\ Cardinality(DOMAIN served_policy) < MaxServed
    /\ LET r == get_action(served_policy, player_cards, dealer_visible_card,
                           explore, random)
       IN /\ served_policy' = r.policy
          /\ served_call' = [op |-> "get_action", file |-> served_call.file,
                             state |-> r.state, explore |-> explore,
                             action |-> r.action]
    /\ UNCHANGED <<env_vars, train_vars, model_file, dq_vars>>
    /\ UNCHANGED not_rl

\* No serving agent, no model file.
ServeNew ==
    /\ model_file = NoFile
    /\ served_policy = Empty
    /\ served_call = NoAgent

(***************************************************************************)
(* train_deep_q: the replay memory                                         *)
(***************************************************************************)

\* memory_capacity (10000 at line 207) and batch_size (64 at line 191),
\* scaled down; the number of steps followed.
memory_capacity == 3
batch_size == 2
MaxDQSteps == 4

\* Lines 237-239 dropping the transition just stored from a full memory.
store_EvictNewest(mem, transition) ==
    IF Len(mem) + 1 > memory_capacity THEN mem ELSE Append(mem, transition)

\* Lines 237-239: the transition stored.
store(mem, transition) ==
    LET stored == Append(mem, transition)
    IN IF Len(stored) > memory_capacity THEN Tail(stored) ELSE stored

\* train_deep_q up to the reset of the first episode (lines 194-218).
DQInit ==
    /\ \E n1 \in Rolls, n2 \in Rolls, n3 \in Rolls,
          n4 \in Rolls :
          /\ env = env_reset(draw_card(n1), draw_card(n2), draw_card(n3),
                             draw_card(n4))
          /\ env_call = Called("reset", ActStand, <<>>, env)
    /\ memory = <<>>
    /\ dq_call = [steps |-> 0, learned |-> FALSE]

\* One pass of the loop of lines 220-273; the action is random's or the
\* network's, either of the two; the pass learns from a batch (lines
\* 245-273) when the memory holds one.
DQStep(action) ==
    /\ dq_call.steps < MaxDQSteps
    /\ ~env.done
    /\ \E o \in step(env, action, Rolls) :
          /\ env' = o.env
          /\ env_call' = Called("step", action, o.dealer, o.env)
          /\ memory' = store(memory, <<get_state(env), action, o.env.reward,
                                       get_state(o.env), o.env.done>>)
    /\ dq_call' = [steps |-> dq_call.steps + 1,
                   learned |-> Len(memory') >= batch_size]
    /\ UNCHANGED <<train_vars, serve_vars>>
    /\ UNCHANGED not_rl

\* The end of an episode (lines 275-280) and the reset of the next (217).
DQEpisode ==
    /\ dq_call.steps < MaxDQSteps
    /\ env.done
    /\ \E n1 \in Rolls, n2 \in Rolls, n3 \in Rolls,
          n4 \in Rolls :
          /\ env' = env_reset(draw_card(n1), draw_card(n2), draw_card(n3),
                              draw_card(n4))
          /\ env_call' = Called("reset", ActStand, <<>>, env')
    /\ UNCHANGED <<train_vars, serve_vars, dq_vars>>
    /\ UNCHANGED not_rl

\* No training run: an environment never stepped, nothing learned or stored.
EnvNew ==
    /\ env = NoEnv
    /\ env_call = Called("reset", ActStand, <<>>, NoEnv)

TrainNew ==
    /\ policy = Empty
    /\ Q = Empty
    /\ returns = Empty
    /\ episode_states = <<>>
    /\ episode_actions = <<>>
    /\ episode_rewards = <<>>
    /\ episode = 0

DQNew ==
    /\ memory = <<>>
    /\ dq_call = [steps |-> 0, learned |-> FALSE]

RLNew == EnvNew /\ TrainNew /\ ServeNew /\ DQNew

(***************************************************************************)
(* The Blackjack driver (src/llm_blackjack/app.py)                         *)
(***************************************************************************)

PlayerTypes == {"human", "llm", "monte_carlo", "deep_q"}

\* How many matches the log may hold for a request to be made, and how many
\* decisions the dealer loop may ask for.
MaxBJMatches == 2
MaxDealerAsked == 2

\* player_model of the handlers (lines 80-86, 341-347, 478-484).
player_model(type) ==
    IF type = "llm" THEN "gemma3:latest"
    ELSE IF type = "human" THEN "None"
    ELSE type

\* What the policy on the player seat may answer: the text agent any of the
\* response texts, by the action it resolves to; RLInterface.get_response
\* "HIT" or "STAND".
PolicyAnswers(type) ==
    IF type = "llm" THEN {a[2] : a \in PlayerActions} ELSE {"HIT", "STAND"}
DealerAnswers == {a[2] : a \in DealerActions}

\* "stand" in result.lower(), of the strings process_dealer_llm_response
\* returns: only the invalid-response string holds the word.
Stands(ret) == ret = <<InvalidResponse>>

\* The dealer loop (lines 181-276 and 378-467) on an engine g: the engines it
\* may leave, with the number of decisions it asked for.
RECURSIVE dealer_loop(_, _)
dealer_loop(g, asked) ==
    IF g.game_over \/ asked >= MaxDealerAsked
    THEN {[g |-> g, asked |-> asked]}
    ELSE UNION { UNION {
            IF Stands(o.ret) \/ o.g.game_over
            THEN {[g |-> o.g, asked |-> asked + 1]}
            ELSE dealer_loop(o.g, asked + 1)
            : o \in process_dealer_llm_response(g, a) }
            : a \in DealerAnswers }

\* "If game is not over, let the LLM make decisions for the dealer".
dealer_turn(g) ==
    IF ~g.game_over THEN dealer_loop(g, 0) ELSE {[g |-> g, asked |-> 0]}

BJAppInit ==
    /\ bj_player_type = "human"
    /\ bjapp_pc = "idle"
    /\ ai_response = ""
    /\ bjapp_call = [request |-> "", status |-> 0, dealer_asked |-> 0]

\* stats.record_match(player_type, player_model, game_state['winner'], ...)
\* when recorded, and the statistics left alone when not.
Recorded(record, type, match_winner) ==
    IF record
    THEN /\ stats_players' = bj_record_match(stats_players, type,
                                             player_model(type), match_winner)
         /\ stats_matches' = Append(stats_matches,
                                    [player |-> bj_player(type, player_model(type)),
                                     winner |-> match_winner])
         /\ stats_call' = <<"record_match", type, player_model(type), match_winner>>
    ELSE UNCHANGED stats_vars

not_bjapp == <<c4_vars, parse_vars, llm_vars, app_vars, thread_vars, rl_vars>>

\* POST /api/start-game up to the AI loop (lines 46-93).
BJAppStartGame(type) ==
    /\ bjapp_pc = "idle"
    /\ Len(stats_matches) < MaxBJMatches
    /\ \E g \in start_game :
          /\ Becomes(g)
          /\ bj_call' = <<"start_game", "", <<>> >>
          /\ Recorded(g.game_over, type, g.winner)
          /\ bjapp_pc' = IF type # "human" /\ ~g.game_over
                         THEN "player_prompt" ELSE "idle"
    /\ bj_player_type' = type
    /\ ai_response' = ""
    /\ bjapp_call' = [request |-> "start-game", status |-> 200, dealer_asked |-> 0]
    /\ UNCHANGED not_bjapp

\* The AI loop asks the policy on the player seat (lines 95-153).
BJAppAsk(answer) ==
    /\ bjapp_pc = "player_prompt"
    /\ answer \in PolicyAnswers(bj_player_type)
    /\ ai_response' = answer
    /\ bjapp_pc' = "player_response"
    /\ UNCHANGED <<bj_vars, stats_vars, bj_player_type, bjapp_call>>
    /\ UNCHANGED not_bjapp

\* The AI loop applies the answer; when the loop is left, the rest of the
\* handler (lines 155-309).
BJAppProcess ==
    /\ bjapp_pc = "player_response"
    /\ \E o \in process_player_llm_response(BJGame, ai_response) :
          LET action == o.ret[1]
              left == action = "STAND" \/ o.g.game_over
          IN /\ bj_call' = <<"process_player_llm_response", ai_response, o.ret>>
             /\ IF action = "raise"
                THEN /\ Becomes(o.g)
                     /\ UNCHANGED stats_vars
                     /\ bjapp_pc' = "idle"
                     /\ bjapp_call' = [bjapp_call EXCEPT !.status = 500]
                ELSE IF ~left
                THEN /\ Becomes(o.g)
                     /\ UNCHANGED stats_vars
                     /\ bjapp_pc' = "player_prompt"
                     /\ UNCHANGED bjapp_call
                ELSE \E s \in (IF ~o.g.game_over /\ action = "STAND"
                               THEN {[g |-> p.g, exc |-> p.exc] : p \in player_stand(o.g)}
                               ELSE {[g |-> o.g, exc |-> NoExc]}) :
                     \E d \in (IF ~o.g.game_over /\ action = "STAND" /\ s.exc = NoExc
                               THEN dealer_loop(s.g, 0)
                               ELSE {[g |-> s.g, asked |-> 0]}) :
                        /\ Becomes(d.g)
                        /\ Recorded(s.exc = NoExc /\ d.g.game_over,
                                    bj_player_type, d.g.winner)
                        /\ bjapp_pc' = "idle"
                        /\ bjapp_call' = [bjapp_call EXCEPT
                              !.status = IF s.exc = NoExc THEN 200 ELSE 500,
                              !.dealer_asked = d.asked]
    /\ UNCHANGED <<bj_player_type, ai_response>>
    /\ UNCHANGED not_bjapp

\* POST /api/player-hit (lines 313-363).
BJAppPlayerHit ==
    /\ bjapp_pc = "idle"
    /\ Len(stats_matches) < MaxBJMatches
    /\ \E o \in player_hit(BJGame) :
          LET raised == o.exc # NoExc \/ o.g.player_hand = <<>>
          IN /\ Becomes(o.g)
             /\ bj_call' = <<"player_hit", "",
                             IF o.exc = NoExc THEN <<>> ELSE <<"raise", o.exc>> >>
             /\ Recorded(~raised /\ o.g.game_over, bj_player_type, o.g.winner)
             /\ bjapp_call' = [request |-> "player-hit",
                               status |-> IF raised THEN 500 ELSE 200,
                               dealer_asked |-> 0]
    /\ UNCHANGED <<bj_player_type, bjapp_pc, ai_response>>
    /\ UNCHANGED not_bjapp

\* POST /api/player-stand (lines 365-505).
BJAppPlayerStand ==
    /\ bjapp_pc = "idle"
    /\ Len(stats_matches) < MaxBJMatches
    /\ \E o \in player_stand(BJGame) :
          LET raised == o.exc # NoExc \/ o.g.dealer_hand = <<>>
          IN \E d \in (IF raised THEN {[g |-> o.g, asked |-> 0]}
                       ELSE dealer_turn(o.g)) :
                /\ Becomes(d.g)
                /\ bj_call' = <<"player_stand", "",
                                IF o.exc = NoExc THEN <<>> ELSE <<"raise", o.exc>> >>
                /\ Recorded(~raised /\ d.g.game_over, bj_player_type, d.g.winner)
                /\ bjapp_call' = [request |-> "player-stand",
                                  status |-> IF raised THEN 500 ELSE 200,
                                  dealer_asked |-> d.asked]
    /\ UNCHANGED <<bj_player_type, bjapp_pc, ai_response>>
    /\ UNCHANGED not_bjapp

\* The Blackjack driver no request was made to.
BJAppNew == BJAppInit


(***************************************************************************)
(* The specifications                                                      *)
(***************************************************************************)

\* The Connect4Game of the Blackjack runs: as constructed.
C4New ==
    /\ board = reset_game.board
    /\ current_player = reset_game.current_player
    /\ game_over = reset_game.game_over
    /\ winner = reset_game.winner
    /\ last_move = reset_game.last_move
    /\ moves_count = reset_game.moves_count
    /\ c4_call = <<"reset_game">>
    /\ c4_start = 0

\* The BlackjackGame of the Connect 4 runs: as constructed, in one shuffle.
BJNew ==
    /\ deck = Shuffled(Shuffles[1])
    /\ player_hand = <<>>
    /\ dealer_hand = <<>>
    /\ bj_game_over = FALSE
    /\ bj_winner = None
    /\ message = ""
    /\ bj_call = <<"__init__", "", <<>> >>

\* No text given to the parsers.
ParseNew ==
    /\ parse_text = <<>>
    /\ parsed = <<>>

\* GameStats as created by default.
StatsNew == StatsInit

\* The LLMInterface no call was made on.
LLMNew == LLMInit

\* The driver no request was made to.
AppNew == AppInit

\* No request being handled.
ThreadsNew == ThreadsInit

InitC4 == C4Init /\ BJNew /\ ParseNew /\ StatsNew /\ LLMNew /\ AppNew /\ ThreadsNew /\ RLNew /\ BJAppNew
NextC4 ==
    \/ \E column \in ColumnInputs : MakeMove(column)
    \/ ResetGame
    \/ \E i \in 1..Len(C4Responses) : ProcessResponse(i)
SpecC4 == InitC4 /\ [][NextC4]_vars

InitBJ == BJInit /\ C4New /\ ParseNew /\ StatsNew /\ LLMNew /\ AppNew /\ ThreadsNew /\ RLNew /\ BJAppNew
NextBJ ==
    \/ StartGame
    \/ PlayerHit
    \/ PlayerStand
    \/ \E i \in 1..Len(Responses) : ProcessPlayerResponse(i)
    \/ \E i \in 1..Len(Responses) : ProcessDealerResponse(i)
SpecBJ == InitBJ /\ [][NextBJ]_vars

InitParse == ParseInit /\ C4New /\ BJNew /\ StatsNew /\ LLMNew /\ AppNew /\ ThreadsNew /\ RLNew /\ BJAppNew
NextParse ==
    \/ ParsePlayer
    \/ ParseDealer
SpecParse == InitParse /\ [][NextParse]_vars

\* One program runs at a time, each with its own engine: Connect 4
\* operations while the Blackjack engine is as constructed, Blackjack
\* operations while the Connect 4 engine is.
InitEither == InitC4 \/ InitBJ
NextEither ==
    \/ \E column \in ColumnInputs : BJNew /\ MakeMove(column)
    \/ BJNew /\ ResetGame
    \/ \E i \in 1..Len(C4Responses) : BJNew /\ ProcessResponse(i)
    \/ C4New /\ StartGame
    \/ C4New /\ PlayerHit
    \/ C4New /\ PlayerStand
    \/ \E i \in 1..Len(Responses) : C4New /\ ProcessPlayerResponse(i)
    \/ \E i \in 1..Len(Responses) : C4New /\ ProcessDealerResponse(i)
SpecEither == InitEither /\ [][NextEither]_vars

InitStats == StatsInit /\ C4New /\ BJNew /\ ParseNew /\ LLMNew /\ AppNew /\ ThreadsNew /\ RLNew /\ BJAppNew
NextStats ==
    \/ \E p1 \in SeatTypes, p2 \in SeatTypes, w \in {0, 1, 2} :
          RecordMatch(p1, p2, w)
    \/ \E pm \in PlayerModels, w \in {"player", "dealer", "tie"} :
          BJRecordMatch(pm[1], pm[2], w)
    \/ GetLeaderboard
SpecStats == InitStats /\ [][NextStats]_vars

InitLLM == LLMInit /\ C4New /\ BJNew /\ ParseNew /\ StatsNew /\ AppNew /\ ThreadsNew /\ RLNew /\ BJAppNew
NextLLM ==
    \/ \E prompt \in Prompts, o \in Outcomes, digit \in 0..6 :
          GetResponse(prompt, o, digit)
    \/ ResetConversation
SpecLLM == InitLLM /\ [][NextLLM]_vars

InitApp == AppInit /\ C4New /\ BJNew /\ ParseNew /\ StatsNew /\ LLMNew /\ ThreadsNew /\ RLNew /\ BJAppNew
NextApp ==
    \/ \E p2 \in SeatTypes :
          AppStartGame("human", p2, Endpoint("Timeout", 0, NoneValue), 0)
    \/ \E p2 \in SeatTypes, d \in Draws : AppStartGame("llm", p2, d[1], d[2])
    \/ AppMakeMoveNone
    \/ \E column \in AppColumns, d \in Draws : AppMakeMove(column, d[1], d[2])
SpecApp == InitApp /\ [][NextApp]_vars

InitThreads ==
    ThreadsInit /\ AppNew /\ C4New /\ BJNew /\ ParseNew /\ StatsNew /\ LLMNew
    /\ RLNew /\ BJAppNew
NextThreads ==
    \E t \in Threads :
        \/ \E p1 \in SeatTypes, p2 \in SeatTypes : SGAcquire(t, p1, p2)
        \/ SGTypes(t)
        \/ SGReset(t)
        \/ \E d \in ThreadDraws : SGReply(t, d[1], d[2])
        \/ \E column \in AppColumns : MMAcquire(t, column)
        \/ MMMove(t)
        \/ \E d \in ThreadDraws : MMReply(t, d[1], d[2])
SpecThreads == InitThreads /\ [][NextThreads]_vars

Others == C4New /\ BJNew /\ ParseNew /\ StatsNew /\ LLMNew /\ AppNew /\ ThreadsNew
          /\ BJAppNew

InitEnv == EnvInit /\ TrainNew /\ ServeNew /\ DQNew /\ Others
NextEnv ==
    \/ EnvReset
    \/ \E action \in Actions : EnvStep(action)
SpecEnv == InitEnv /\ [][NextEnv]_vars

\* The episode loops of train_monte_carlo and train_deep_q step the
\* environment until it is done.
EnvSteps == \E action \in Actions : EnvStep(action)
FairEnv == SpecEnv /\ WF_vars(EnvSteps)

\* What random gives a pass of the training loop: whether it explores, and
\* the action it then takes.
TrainDraws == {<<TRUE, ActStand>>, <<TRUE, ActHit>>, <<FALSE, ActStand>>}

\* What random gives a get_action call.
ServeDraws == {<<TRUE, ActHit>>, <<FALSE, ActStand>>}

InitMC == TrainInit /\ ServeNew /\ DQNew /\ Others
NextMC ==
    \/ \E d \in TrainDraws : MCStep(d[1], d[2])
    \/ MCUpdate
    \/ MCSave
    \/ NewAgent
    \/ \E cards \in ServedHands, dealer \in ServedDealer, d \in ServeDraws :
          GetAction(cards, dealer, d[1], d[2])
SpecMC == InitMC /\ [][NextMC]_vars

InitDQ == DQInit /\ TrainNew /\ ServeNew /\ Others
NextDQ ==
    \/ \E action \in Actions : DQStep(action)
    \/ DQEpisode
SpecDQ == InitDQ /\ [][NextDQ]_vars

\* The Blackjack driver: requests handled one at a time on the engine and the
\* statistics of the process.
InitBJApp ==
    BJAppInit /\ BJNew /\ C4New /\ ParseNew /\ StatsNew /\ LLMNew /\ AppNew
    /\ ThreadsNew /\ RLNew
BJAppAsks == \E answer \in {"HIT", "STAND", "INVALID"} : BJAppAsk(answer)
NextBJApp ==
    \/ \E type \in PlayerTypes : BJAppStartGame(type)
    \/ BJAppAsks
    \/ BJAppProcess
    \/ BJAppPlayerHit
    \/ BJAppPlayerStand
SpecBJApp == InitBJApp /\ [][NextBJApp]_vars

\* The handler that is in its AI loop keeps running: the policy answers and
\* the answer is applied.
FairBJApp == SpecBJApp /\ WF_vars(BJAppAsks) /\ WF_vars(BJAppProcess)

(***************************************************************************)
(* Connect 4: the claims                                                   *)
(***************************************************************************)

InBoard(x, y) == x \in Columns /\ y \in Rows

\* The length of the maximal run of cells of the owner of (col, row) that
\* contains (col, row), along the line of direction (dx, dy): the cell, and
\* on each side the cells reached through cells of the same owner only.
RunThrough(b, col, row, dx, dy) ==
    LET Mine(k) == /\ InBoard(col + k * dx, row + k * dy)
                   /\ b[col + k * dx][row + k * dy] = b[col][row]
        ahead == {k \in 1..6 : \A j \in 1..k : Mine(j)}
        behind == {k \in 1..6 : \A j \in 1..k : Mine(-j)}
    IN 1 + Cardinality(ahead) + Cardinality(behind)

\* One direction for each axis: vertical, horizontal, the two diagonals.
Axes == { <<0, 1>>, <<1, 0>>, <<1, 1>>, <<1, -1>> }

LongestRun(b, col, row) ==
    LET lens == {RunThrough(b, col, row, a[1], a[2]) : a \in Axes}
    IN CHOOSE n \in lens : \A m \in lens : m <= n

ColumnFull(b, column) == \A r \in Rows : b[column][r] # 0

\* C1: after any sequence of make_move calls, accepted or rejected, no
\* occupied cell lies above an empty cell of its column: for rows r < r2
\* (row 5 is the bottom), board[c][r] # 0 implies board[c][r2] # 0.
C1_Gravity ==
    \A c \in Columns : \A r \in Rows : \A r2 \in Rows :
        (r < r2 /\ board[c][r] # 0) => board[c][r2] # 0

\* A rejected call on a board with a column that is partly filled.
C1_Witness ==
    /\ c4_call[1] = "make_move" /\ c4_call[3] = FALSE
    /\ \E c \in Columns : board[c][3] # 0 /\ board[c][2] = 0

\* C2: make_move(column) returns False and leaves every field unchanged when
\* the game is over, when column < 0 or column > 6, or when the column is
\* full; for every other integer column it returns True and places exactly
\* one piece of the current player in the lowest empty row of the column.
C2_MakeMoveContract ==
    [][ c4_call'[1] = "make_move" =>
          LET column == c4_call'[2]
              ok == c4_call'[3]
          IN IF \/ game_over
                \/ column < 0
                \/ column > 6
                \/ ColumnFull(board, column)
             THEN ok = FALSE /\ UNCHANGED c4_fields
             ELSE /\ ok = TRUE
                  /\ \E row \in Rows :
                        /\ board[column][row] = 0
                        /\ \A r \in Rows : r > row => board[column][r] # 0
                        /\ board' = [board EXCEPT
                                        ![column][row] = current_player]
      ]_c4_vars

\* make_move was just refused a full column of a game that is not over.
C2_Witness ==
    /\ c4_call[1] = "make_move" /\ c4_call[3] = FALSE
    /\ ~game_over
    /\ c4_call[2] \in Columns
    /\ ColumnFull(board, c4_call[2])

\* C3: the win check precedes the draw check. When the 42nd piece completes
\* four in a row the winner is the mover (1 or 2), never 0; winner = 0 is
\* set only when the 42nd piece completes no line of four.
C3_WinBeforeDraw ==
    /\ (moves_count = 42 /\ LongestRun(board, last_move[1], last_move[2]) >= 4)
          => (winner = board[last_move[1]][last_move[2]] /\ winner \in {1, 2})
    /\ winner = 0
          => (moves_count = 42
              /\ LongestRun(board, last_move[1], last_move[2]) < 4)

\* The 42nd piece completed a line of four.
C3_Witness ==
    /\ moves_count = 42
    /\ LongestRun(board, last_move[1], last_move[2]) >= 4
    /\ game_over

\* C4: _check_win(col, row) on the cell just filled is True exactly when on
\* one of the four axes the maximal run of same-owner cells containing
\* (col, row) has length >= 4.
C4_CheckWin ==
    last_move # NoMove =>
        (check_win(board, last_move[1], last_move[2])
            <=> LongestRun(board, last_move[1], last_move[2]) >= 4)

\* The cell just filled joined two runs into one of five or more.
C4_Witness ==
    /\ last_move # NoMove
    /\ LongestRun(board, last_move[1], last_move[2]) >= 5
    /\ check_win(board, last_move[1], last_move[2])

\* A run of three through the cell just filled: no win.
C4_WitnessThree ==
    /\ last_move # NoMove
    /\ LongestRun(board, last_move[1], last_move[2]) = 3
    /\ ~check_win(board, last_move[1], last_move[2])

(***************************************************************************)
(* Connect 4: the claims on response parsing                               *)
(***************************************************************************)

C4GameNext == [board |-> board', current_player |-> current_player',
               game_over |-> game_over', winner |-> winner',
               last_move |-> last_move', moves_count |-> moves_count']

DigitValue(c) ==
    CASE c = "0" -> 0 [] c = "1" -> 1 [] c = "2" -> 2 [] c = "3" -> 3
      [] c = "4" -> 4 [] c = "5" -> 5 [] c = "6" -> 6

\* The <think>...</think> spans of t, as <<first position, last position>>.
Spans(t) ==
    {s \in (1..Len(t)) \X (1..Len(t)) :
        /\ s[2] - s[1] >= 14
        /\ SubSeq(t, s[1], s[1] + 6) = OpenThink
        /\ SubSeq(t, s[2] - 7, s[2]) = CloseThink}

\* The first span: the leftmost start, and the nearest end for it.
FirstSpan(t) ==
    CHOOSE s \in Spans(t) :
        \A u \in Spans(t) : s[1] < u[1] \/ (s[1] = u[1] /\ s[2] <= u[2])

\* The positions of t the reasoning segment takes away: those of the first
\* span, and with copies those of every repetition of its text as well.
Reasoning(t, copies) ==
    IF Spans(t) = {} THEN {}
    ELSE LET f == FirstSpan(t)
             text == SubSeq(t, f[1], f[2])
         IN {i \in 1..Len(t) :
                \/ f[1] <= i /\ i <= f[2]
                \/ /\ copies
                   /\ \E p \in 1..i : /\ i < p + Len(text)
                                      /\ p + Len(text) - 1 <= Len(t)
                                      /\ SubSeq(t, p, p + Len(text) - 1) = text}

\* The first character in '0'..'6' outside the reasoning segment, as a
\* column; NoColumn when there is none.
ParsedColumn(t, copies) ==
    LET at == {i \in 1..Len(t) :
                 /\ i \notin Reasoning(t, copies)
                 /\ t[i] \in {"0", "1", "2", "3", "4", "5", "6"}}
    IN IF at = {} THEN NoColumn
       ELSE DigitValue(t[CHOOSE i \in at : \A j \in at : i <= j])

\* The column of each of C4Responses, by the first span alone and with the
\* repetitions of its text.
ColumnsFirstSpan ==
    [i \in 1..Len(C4Responses) |-> ParsedColumn(C4Responses[i], FALSE)]
ColumnsSpanCopies ==
    [i \in 1..Len(C4Responses) |-> ParsedColumn(C4Responses[i], TRUE)]

C12_Step(columns) ==
    c4_call'[1] = "process_player_llm_response" =>
        LET column == columns[c4_call'[2]]
        IN /\ c4_call'[3] = column
           /\ IF column = NoColumn
              THEN c4_call'[4] = FALSE /\ UNCHANGED c4_fields
              ELSE /\ c4_call'[4] = make_move(C4Game, column).ok
                   /\ C4GameNext = make_move(C4Game, column).g
           /\ columns[1] = 3
           /\ columns[2] = 4
           /\ columns[3] = NoColumn

\* C12 (as stated): process_player_llm_response removes the first
\* <think>...</think> span, takes the first character in '0'..'6' of the
\* remaining text as the column, calls make_move with it and reports
\* success = make_move's result; "I will choose 3" gives 3, a reasoning
\* segment followed by "4" gives 4, a text with no such character gives
\* column None and success False.
C12_ParseFirstSpan == [][C12_Step(ColumnsFirstSpan)]_c4_vars

\* C12 (amended): as above, with every repetition of the text of the first
\* <think>...</think> span removed along with the span itself.
C12_ParseSpanCopies == [][C12_Step(ColumnsSpanCopies)]_c4_vars

\* "<think>5</think><think>5</think>3" was processed: column 3, accepted.
C12_Witness ==
    /\ c4_call = <<"process_player_llm_response", 4, 3, TRUE>>
    /\ moves_count > 0

(***************************************************************************)
(* Blackjack: the claims                                                   *)
(***************************************************************************)

BJGameNext == [deck |-> deck', player_hand |-> player_hand',
               dealer_hand |-> dealer_hand', game_over |-> bj_game_over',
               winner |-> bj_winner', message |-> message']

RanksOf(cards) == [i \in 1..Len(cards) |-> cards[i].rank]

Shown(cards) == {i \in 1..Len(cards) : ~cards[i].hidden}

\* The total of the non-hidden cards with every ace counted as 1.
RECURSIVE HardTotal(_)
HardTotal(cards) ==
    IF cards = <<>> THEN 0
    ELSE HardTotal(SubSeq(cards, 1, Len(cards) - 1))
         + (LET c == cards[Len(cards)]
            IN IF c.hidden THEN 0
               ELSE IF c.rank = "A" THEN 1 ELSE CARD_VALUES[c.rank])

\* The largest total <= 21 obtainable by counting each visible ace as 1 or
\* 11, or the all-aces-as-1 total when there is none.
BestTotal(cards) ==
    LET aces == Cardinality({i \in Shown(cards) : cards[i].rank = "A"})
        fits == {t \in {HardTotal(cards) + 10 * k : k \in 0..aces} : t <= 21}
    IN IF fits = {} THEN HardTotal(cards)
       ELSE CHOOSE t \in fits : \A u \in fits : u <= t

\* C5: Hand.get_value() is the largest total <= 21 obtainable by counting
\* each visible ace as 1 or 11, or the all-aces-as-1 total when no such total
\* exists; [A,6] = 17, [A,6,Q] = 17, [A,A,9] = 21.
C5_HandValue ==
    /\ get_value(player_hand) = BestTotal(player_hand)
    /\ get_value(dealer_hand) = BestTotal(dealer_hand)
    /\ get_value(TopCards(<<"A", "6">>)) = 17
    /\ get_value(TopCards(<<"A", "6", "Q">>)) = 17
    /\ get_value(TopCards(<<"A", "A", "9">>)) = 21

\* The player holds [A, A, 9] after a deal: one ace recounted, one not.
C5_Witness ==
    /\ RanksOf(player_hand) = <<"A", "A", "9">>
    /\ get_value(player_hand) = 21
    /\ Len(dealer_hand) >= 2

\* C6: after start_game(), from any prior state, the player holds exactly
\* two non-hidden cards and the dealer exactly two cards. If the player's two
\* cards total 21 the game is over, the dealer's first card is revealed and
\* winner is 'tie' if the dealer's two cards also total 21, else 'player'.
\* Otherwise the game is not over, winner is None, the dealer's first card
\* is hidden and the second visible.
C6_StartGame ==
    bj_call[1] = "start_game" =>
        /\ Len(player_hand) = 2
        /\ Shown(player_hand) = {1, 2}
        /\ Len(dealer_hand) = 2
        /\ IF BestTotal(player_hand) = 21
           THEN /\ bj_game_over
                /\ ~dealer_hand[1].hidden
                /\ bj_winner =
                     IF BestTotal([i \in 1..2 |->
                            [dealer_hand[i] EXCEPT !.hidden = FALSE]]) = 21
                     THEN "tie" ELSE "player"
           ELSE /\ ~bj_game_over
                /\ bj_winner = None
                /\ dealer_hand[1].hidden
                /\ ~dealer_hand[2].hidden

\* start_game found two blackjacks.
C6_Witness ==
    /\ bj_call[1] = "start_game"
    /\ bj_winner = "tie"

\* The hand grew by one card at its end.
OneMoreCard(before, after) ==
    /\ Len(after) = Len(before) + 1
    /\ SubSeq(after, 1, Len(before)) = before

\* C7: on a non-terminal game player_hit() adds exactly one card to the
\* player hand; if the new value exceeds 21 the game is over with winner
\* 'dealer' and the dealer's hole card revealed; if it is exactly 21 the
\* resulting state is the one player_stand() produces (terminal); otherwise
\* the game stays non-terminal and the dealer hand is unchanged.
C7_Hit(dealt) ==
    (bj_call'[1] = "player_hit" /\ ~bj_game_over /\ dealt) =>
        /\ OneMoreCard(player_hand, player_hand')
        /\ IF get_value(player_hand') > 21
           THEN /\ bj_game_over'
                /\ bj_winner' = "dealer"
                /\ dealer_hand' # <<>>
                /\ ~dealer_hand'[1].hidden
           ELSE IF get_value(player_hand') = 21
           THEN /\ bj_game_over'
                /\ \E o \in player_stand(
                        [BJGame EXCEPT !.player_hand = player_hand',
                                       !.deck = SubSeq(deck, 1, Len(deck) - 1)]) :
                       o.g = BJGameNext
           ELSE /\ ~bj_game_over'
                /\ dealer_hand' = dealer_hand

C7_PlayerHit == [][C7_Hit(TRUE)]_bj_vars

\* C7 on the games that hold dealer cards (start_game has dealt).
C7_PlayerHitOnDealtGame == [][C7_Hit(dealer_hand # <<>>)]_bj_vars

\* player_hit took a dealt game to 21 and the dealer's turn was played.
C7_Witness ==
    /\ bj_call = <<"player_hit", "", <<>> >>
    /\ Len(player_hand) = 3
    /\ get_value(player_hand) = 21
    /\ Len(dealer_hand) > 2
    /\ bj_game_over

\* C8: on a non-terminal game player_stand() reveals the dealer's hole card,
\* makes the dealer draw while the dealer value is below 17, and always ends
\* terminal with the final dealer value >= 17 and winner 'player' if the
\* dealer value exceeds 21, else 'dealer' if dealer value > player value,
\* 'player' if player value > dealer value, 'tie' if equal; the player hand
\* is unchanged.
C8_Stand(dealt) ==
    (bj_call'[1] = "player_stand" /\ ~bj_game_over /\ dealt) =>
        LET dealer_value == get_value(dealer_hand')
            player_value == get_value(player_hand')
        IN /\ bj_game_over'
           /\ Shown(dealer_hand') = 1..Len(dealer_hand')
           /\ Len(dealer_hand') >= Len(dealer_hand)
           /\ \A i \in 1..Len(dealer_hand) :
                 dealer_hand'[i] = [dealer_hand[i] EXCEPT !.hidden = FALSE]
           /\ \A n \in Len(dealer_hand)..(Len(dealer_hand') - 1) :
                 get_value(SubSeq(dealer_hand', 1, n)) < 17
           /\ dealer_value >= 17
           /\ bj_winner' = IF dealer_value > 21 THEN "player"
                           ELSE IF dealer_value > player_value THEN "dealer"
                           ELSE IF player_value > dealer_value THEN "player"
                           ELSE "tie"
           /\ player_hand' = player_hand

C8_PlayerStand == [][C8_Stand(TRUE)]_bj_vars

\* C8 on the games that hold dealer cards (start_game has dealt).
C8_PlayerStandOnDealtGame == [][C8_Stand(dealer_hand # <<>>)]_bj_vars

\* player_stand made the dealer draw twice or more, and the dealer won.
C8_Witness ==
    /\ bj_call = <<"player_stand", "", <<>> >>
    /\ Len(dealer_hand) >= 4
    /\ bj_winner = "dealer"

\* C9: a dealer response that resolves to STAND while
\* dealer_hand.get_value() < 17 is rejected: the corrective message is
\* returned and nothing is applied, so no game ends by a dealer STAND with
\* dealer value below 17.
C9_DealerStandBelow17 ==
    [][ (bj_call'[1] = "process_dealer_llm_response" /\ bj_call'[2] = "STAND") =>
          /\ get_value(dealer_hand) < 17 =>
                (bj_call'[3] = <<MustHit>> /\ UNCHANGED bj_fields)
          /\ (~bj_game_over /\ bj_game_over') => get_value(dealer_hand') >= 17
      ]_bj_vars

\* A STAND was refused to the dealer of a dealt game that is not over.
C9_Witness ==
    /\ bj_call = <<"process_dealer_llm_response", "STAND", <<MustHit>> >>
    /\ Len(dealer_hand) >= 2
    /\ get_value(dealer_hand) < 17
    /\ ~bj_game_over

\* C10: once the game is over, player_hit(), player_stand() and
\* process_player_llm_response(text), for any text, leave both hands, the
\* deck, the hidden flags, winner, message and game_over unchanged.
C10_PlayerFrame ==
    [][ (bj_game_over /\ bj_call'[1] \in {"player_hit", "player_stand",
                                          "process_player_llm_response"}) =>
          UNCHANGED bj_fields ]_bj_vars

\* A response resolving to HIT was processed on a game that start_game had
\* ended: the player still holds two cards.
C10_Witness ==
    /\ bj_call = <<"process_player_llm_response", "HIT", <<"HIT">> >>
    /\ bj_game_over
    /\ Len(player_hand) = 2
    /\ Len(dealer_hand) = 2

\* C11: once a Blackjack game is over, process_dealer_llm_response(text) is
\* rejected for every text, HIT and STAND included, and leaves the dealer
\* hand, the player hand, the deck, winner, message and game_over unchanged;
\* the recorded winner of a finished game never changes.
C11_DealerFrame ==
    [][ (bj_game_over /\ bj_call'[1] = "process_dealer_llm_response") =>
          UNCHANGED bj_fields ]_bj_vars

\* The part of C11 about the winner alone: no step of a finished game other
\* than start_game changes the recorded winner.
C11_WinnerKept ==
    [][ (bj_game_over /\ bj_call'[1] # "start_game") =>
          bj_winner' = bj_winner ]_bj_vars

(***************************************************************************)
(* Blackjack: the claims on response parsing                               *)
(***************************************************************************)

\* The decision text: what follows the first </think> if there is one,
\* trimmed and in upper case.
Decision(t) ==
    Upper(Strip(IF Contains(t, CloseThink) THEN AfterFirst(t, CloseThink) ELSE t))

\* The last whitespace-delimited token of a decision text, <<>> without one.
LastToken(d) == IF Inked(d) = {} THEN <<>> ELSE LastWord(d)

\* The actions the precedence of C13 gives a text: rule (2) names no order
\* between HIT and STAND, so a last token holding both allows both.
Precedence(t) ==
    LET d == Decision(t)
        last == LastToken(d)
    IN IF d = HIT THEN {"HIT"}
       ELSE IF d = STAND THEN {"STAND"}
       ELSE IF Contains(last, HIT) \/ Contains(last, STAND)
       THEN {a \in {"HIT", "STAND"} :
                \/ a = "HIT" /\ Contains(last, HIT)
                \/ a = "STAND" /\ Contains(last, STAND)}
       ELSE IF Contains(d, STAND) THEN {"STAND"}
       ELSE IF Contains(d, HIT) THEN {"HIT"}
       ELSE {"INVALID"}

\* C13: Blackjack response parsing resolves the action, after discarding
\* everything up to and including the first '</think>' and trimming and
\* uppercasing the rest, by (1) the text is exactly HIT or STAND, (2) else
\* the last whitespace-delimited token contains HIT or STAND, (3) else the
\* whole text contains STAND, checked before HIT, else unparseable; the
\* player and the dealer variant resolve the same action for the same text.
C13_Precedence ==
    parsed # <<>> =>
        /\ parsed[2] \in Precedence(parse_text)
        /\ player_action(parse_text) = dealer_action(parse_text)

\* Rule (3) decided against a HIT that the text holds as well, after a
\* closing tag was discarded.
C13_Witness ==
    /\ parsed # <<>>
    /\ parsed[2] = "STAND"
    /\ Contains(parse_text, CloseThink)
    /\ Contains(Decision(parse_text), HIT)
    /\ ~Contains(LastToken(Decision(parse_text)), STAND)

BothPresent(t) == Contains(Decision(t), HIT) /\ Contains(Decision(t), STAND)

\* C14 (as stated): for every response whose decision text contains both HIT
\* and STAND, the resolved action is STAND.
C14_StandWins ==
    (parsed # <<>> /\ BothPresent(parse_text)) => parsed[2] = "STAND"

\* C14 (amended): for every response whose decision text contains both HIT
\* and STAND, the resolved action is STAND when the last token contains
\* STAND and not HIT or contains neither, and HIT when the last token
\* contains HIT and not STAND.
C14_StandWinsButLastToken ==
    (parsed # <<>> /\ BothPresent(parse_text)) =>
        LET last == LastToken(Decision(parse_text))
        IN /\ ~Contains(last, HIT) => parsed[2] = "STAND"
           /\ (Contains(last, HIT) /\ ~Contains(last, STAND)) => parsed[2] = "HIT"

\* Both words are in the decision text, neither in its last token: STAND.
C14_Witness ==
    /\ parsed # <<>>
    /\ BothPresent(parse_text)
    /\ ~Contains(LastToken(Decision(parse_text)), HIT)
    /\ ~Contains(LastToken(Decision(parse_text)), STAND)
    /\ parsed[2] = "STAND"

(***************************************************************************)
(* Both engines: the claim on unparseable responses                        *)
(***************************************************************************)

\* The texts of C4Responses whose decision text has no character '0'..'6'.
NoDigit == {i \in 1..Len(C4Responses) : ColumnsSpanCopies[i] = NoColumn}

\* The texts of Responses whose decision text has neither HIT nor STAND.
NoWord ==
    {i \in 1..Len(Responses) :
        /\ ~Contains(Decision(Responses[i]), HIT)
        /\ ~Contains(Decision(Responses[i]), STAND)}

\* C15: a decision text from which no action can be extracted (no
\* character '0'..'6' for Connect 4; neither HIT nor STAND for the Blackjack
\* player or dealer) yields a failure result and leaves the engine state
\* completely unchanged: no move is applied, nothing further is attempted.
C15_Unparseable ==
    [][ /\ (c4_call'[1] = "process_player_llm_response" /\ c4_call'[2] \in NoDigit) =>
              /\ c4_call'[3] = NoColumn
              /\ c4_call'[4] = FALSE
              /\ UNCHANGED c4_fields
        /\ (bj_call'[1] \in {"process_player_llm_response",
                             "process_dealer_llm_response"}) =>
              /\ \A i \in NoWord : /\ <<i, "INVALID">> \in PlayerActions
                                   /\ <<i, "INVALID">> \in DealerActions
              /\ \A i \in 1..Len(Responses) \ NoWord :
                     /\ <<i, "INVALID">> \notin PlayerActions
                     /\ <<i, "INVALID">> \notin DealerActions
              /\ bj_call'[2] = "INVALID" =>
                     /\ bj_call'[3] = <<InvalidResponse>>
                     /\ UNCHANGED bj_fields
      ]_vars

\* An unparseable text was given to a Connect 4 game with pieces on the
\* board that is not over.
C15_Witness ==
    /\ c4_call[1] = "process_player_llm_response"
    /\ c4_call[2] \in NoDigit
    /\ moves_count > 0
    /\ ~game_over

\* An unparseable text was given as the dealer's response in a dealt
\* Blackjack game that is not over.
C15_WitnessDealer ==
    /\ bj_call[1] = "process_dealer_llm_response"
    /\ bj_call[2] = "INVALID"
    /\ Len(dealer_hand) >= 2
    /\ ~bj_game_over

(***************************************************************************)
(* GameStats: the claim on the leaderboard                                 *)
(***************************************************************************)

\* The counts "players" holds for the player of a leaderboard entry.
StatsOf(e) ==
    CHOOSE st \in {stats_players[k] : k \in 1..Len(stats_players)} :
        st.player = e.player

\* C20: get_leaderboard returns one entry per player; in each entry
\* total_games is wins + losses + ties of that player, win_rate times
\* total_games is wins when total_games is positive and win_rate is 0 when
\* the player has no recorded game; the entries come in non-increasing
\* win_rate order.
C20_Leaderboard ==
    stats_call[1] = "get_leaderboard" =>
        LET lb == stats_call[2]
        IN /\ Len(lb) = Len(stats_players)
           /\ {lb[k].player : k \in 1..Len(lb)}
                = {stats_players[k].player : k \in 1..Len(stats_players)}
           /\ \A k \in 1..Len(lb) :
                LET e == lb[k]
                    st == StatsOf(e)
                    games == st.wins + st.losses + st.ties
                IN /\ e.total_games = games
                   /\ e.wins = st.wins /\ e.losses = st.losses /\ e.ties = st.ties
                   /\ e.win_rate[2] > 0
                   /\ games > 0 => e.win_rate[1] * games = st.wins * e.win_rate[2]
                   /\ games = 0 => e.win_rate[1] = 0
           /\ \A k \in 1..(Len(lb) - 1) :
                lb[k + 1].win_rate[1] * lb[k].win_rate[2]
                    <= lb[k].win_rate[1] * lb[k + 1].win_rate[2]

\* A leaderboard of players with ties, with three different win rates, one
\* of a player without games, which is not in the order of "players".
C20_Witness ==
    /\ stats_call[1] = "get_leaderboard"
    /\ LET lb == stats_call[2]
       IN /\ lb[1].player # stats_players[1].player
          /\ \E k \in 1..Len(lb) : lb[k].ties > 0 /\ lb[k].wins > 0
          /\ \E k \in 1..Len(lb) : lb[k].total_games = 0
          /\ Cardinality({lb[k].win_rate : k \in 1..Len(lb)}) >= 3

(***************************************************************************)
(* LLMInterface: the claim on get_response                                 *)
(***************************************************************************)

\* The texts of one digit 0-6.
FallbackTexts == {Str(<<Digits06[d]>>) : d \in 1..7}

\* C16: get_response never raises; for every failure of the endpoint call
\* (a non-200 status, a timeout, any other exception, a body that is
\* malformed) the text returned is one digit 0-6 and the metadata has
\* fallback = True, the error and a status among error, timeout and
\* exception; otherwise the status is success; and the reply is appended to
\* the transcript only on success.
C16_GetResponse ==
    llm_call[1] = "get_response" =>
        LET o == llm_call[2]
            r == llm_call[3]
        IN /\ ~r.raised
           /\ o \in Failures =>
                /\ r.text \in FallbackTexts
                /\ r.fallback /\ r.error
                /\ r.status \in {"error", "timeout", "exception"}
           /\ o \notin Failures => r.status = "success" /\ ~r.fallback
           /\ Len(llm_history) > r.sent => r.status = "success"

\* The part of C16 on what is returned, without the transcript.
C16_FallbackReturned ==
    llm_call[1] = "get_response" =>
        LET o == llm_call[2]
            r == llm_call[3]
        IN /\ ~r.raised
           /\ o \in Failures =>
                /\ r.text \in FallbackTexts
                /\ r.fallback /\ r.error
                /\ r.status \in {"error", "timeout", "exception"}
           /\ o \notin Failures => r.status = "success" /\ ~r.fallback

\* A call that failed on a body whose content is null, the null reply in the
\* transcript.
C16_ReplyKeptOnFailure ==
    /\ llm_call[1] = "get_response"
    /\ llm_call[3].status = "exception"
    /\ llm_history[Len(llm_history)] = [role |-> "assistant", content |-> NoneValue]

(***************************************************************************)
(* The Connect 4 driver: the claims on the AI turn                         *)
(***************************************************************************)

\* get_ai_move ran in the last request, and its endpoint call failed.
FallbackTurn == ai_move.player # 0 /\ llm_call[3].fallback

\* C17: when the endpoint call of an AI turn fails, the fallback text gives
\* a column that make_move accepts: the piece is placed and the turn passes
\* to the other seat or the game ends.
C17_FallbackAccepted ==
    FallbackTurn =>
        /\ ai_move.success
        /\ game_over \/ current_player # ai_move.player

\* An AI turn on a fallback column that is full: nothing is placed and the
\* same seat is still to move.
C17_FallbackRejected ==
    /\ FallbackTurn
    /\ ai_move.column \in Columns
    /\ \A r \in Rows : board[ai_move.column][r] # 0
    /\ ~ai_move.success
    /\ ~game_over /\ current_player = ai_move.player

\* The messages sent with the last endpoint call.
SentMessages == SubSeq(llm_history, 1, llm_call[3].sent)

\* C19: with both seats played by the text agent, the messages sent for a
\* seat's decision are prompts given to that seat, each but the last followed
\* by that seat's reply, and nothing else.
C19_OwnTranscript ==
    (player1_type = "llm" /\ player2_type = "llm" /\ ai_move.player # 0) =>
        \A k \in 1..Len(SentMessages) :
            /\ SentMessages[k].role = "user" =>
                 SentMessages[k].content[2] = ai_move.player
            /\ SentMessages[k].role = "assistant" =>
                 /\ k > 1
                 /\ SentMessages[k - 1].role = "user"
                 /\ SentMessages[k - 1].content[2] = ai_move.player

\* A decision of seat 2 for which the prompt and the reply of seat 1 were
\* sent.
C19_OtherSeatSent ==
    /\ player1_type = "llm" /\ player2_type = "llm"
    /\ ai_move.player = 2
    /\ Len(SentMessages) >= 3
    /\ SentMessages[1].role = "user" /\ SentMessages[1].content[2] = 1
    /\ SentMessages[2].role = "assistant"

(***************************************************************************)
(* The Connect 4 driver: the claim on concurrent requests                  *)
(***************************************************************************)

\* The thread is in a part of its handler that reads or writes the engine,
\* the seat types, the transcript or the response times, or waits for the
\* endpoint's answer to a prompt built from the engine.
Handling(t) == thread[t].pc # "idle"

\* C18: the lock serializes the handlers: no two threads are at the same
\* time in parts of their handlers that read or write the shared state or
\* hold an outstanding decision request against the engine.
C18_Serialized ==
    \A t \in Threads : \A u \in Threads \ {t} : ~(Handling(t) /\ Handling(u))

\* The parts of the handlers that run under the lock exclude each other.
C18_LockedPartsExclusive ==
    \A t \in Threads :
        thread[t].pc \in {"sg_lock", "mm_lock", "mm_request"} <=> api_lock = t

\* A make_move handler holds the lock and waits for the endpoint while a
\* start_game handler, past its locked part, is about to reset the engine
\* and the transcript.
C18_ResetDuringRequest ==
    \E t \in Threads : \E u \in Threads \ {t} :
        /\ thread[t].pc = "mm_request" /\ api_lock = t
        /\ thread[u].pc = "sg_reset"

(***************************************************************************)
(* Connect 4: the claims on the reachable boards                           *)
(***************************************************************************)

\* The lines of four cells of the board: a first cell and an axis.
Lines ==
    {l \in (Columns \X Rows) \X Axes :
        InBoard(l[1][1] + 3 * l[2][1], l[1][2] + 3 * l[2][2])}

\* The cells of a line.
CellsOf(l) == {<<l[1][1] + k * l[2][1], l[1][2] + k * l[2][2]>> : k \in 0..3}

\* The lines of four whose cells all belong to player.
FoursOf(player) ==
    {l \in Lines : \A cell \in CellsOf(l) : board[cell[1]][cell[2]] = player}

\* C23: while the game is not over no player owns a line of four anywhere
\* on the board, and when the winner is 1 or 2 that player owns a line of
\* four that passes through last_move.
C23_NoMissedWin ==
    /\ ~game_over => FoursOf(1) = {} /\ FoursOf(2) = {}
    /\ winner \in {1, 2} =>
          \E l \in FoursOf(winner) : <<last_move[1], last_move[2]>> \in CellsOf(l)

\* A game won on a line in which the last piece is not an end cell.
C23_Witness ==
    /\ winner \in {1, 2}
    /\ \E l \in FoursOf(winner) :
          \E k \in 1..2 :
             <<last_move[1], last_move[2]>>
                = <<l[1][1] + k * l[2][1], l[1][2] + k * l[2][2]>>

Count(player) ==
    Cardinality({cell \in Columns \X Rows : board[cell[1]][cell[2]] = player})

\* C24, the part on states: moves_count is the number of occupied cells and
\* at most 42; player 1 has as many pieces as player 2 or one more; while
\* the game is not over current_player is 1 exactly when the counts are
\* equal; 42 moves imply the game is over.
C24_Counts ==
    /\ moves_count = Count(1) + Count(2)
    /\ moves_count <= 42
    /\ Count(1) - Count(2) \in {0, 1}
    /\ ~game_over => (current_player = 1 <=> Count(1) = Count(2))
    /\ moves_count = 42 => game_over

\* C24, the part on steps: a move that ends the game does not switch
\* current_player.
C24_EndingMove ==
    (~game_over /\ game_over') => current_player' = current_player

\* C24: in every reachable state the counts agree with moves_count and
\* current_player as stated, and no move that ends the game switches
\* current_player.
C24_Turns == []C24_Counts /\ [][C24_EndingMove]_c4_vars

\* The game ended by a win of player 2, player 2 still current.
C24_Witness ==
    /\ game_over /\ winner = 2 /\ current_player = 2
    /\ Count(1) = Count(2)

\* C25: for every integer column c, make_move(c) succeeds exactly when c is
\* in get_valid_moves(), that is when the game is not over and board[c][0]
\* is empty; get_valid_moves() is empty once the game is over.
C25_ValidMoves ==
    /\ \A c \in ColumnInputs :
          /\ make_move(C4Game, c).ok <=> c \in get_valid_moves(C4Game)
          /\ c \in get_valid_moves(C4Game)
                <=> (c \in Columns /\ ~game_over /\ board[c][0] = 0)
    /\ game_over => get_valid_moves(C4Game) = {}

\* A game not over in which make_move was just refused a full column that
\* get_valid_moves leaves out, other columns being valid.
C25_Witness ==
    /\ ~game_over
    /\ c4_call[1] = "make_move" /\ c4_call[3] = FALSE
    /\ c4_call[2] \in Columns \ get_valid_moves(C4Game)
    /\ \E c \in get_valid_moves(C4Game) : board[c][1] # 0

(***************************************************************************)
(* GameStats: the claim on the player a Blackjack match is counted for     *)
(***************************************************************************)

\* The identifier of the policy on the player seat.
PolicyOf(type, model) ==
    IF type = "human" THEN "human" ELSE IF type = "llm" THEN model ELSE type

\* C22: the Blackjack record_match stores the match under the identifier of
\* the policy on the player seat and counts it there: 'human' for a human,
\* the model name for the text agent, 'monte_carlo' and 'deep_q' for the RL
\* policies.
C22_Attributed ==
    (stats_call[1] = "record_match" /\ Len(stats_call) = 4) =>
        LET id == PolicyOf(stats_call[2], stats_call[3])
        IN /\ stats_matches[Len(stats_matches)].player = id
           /\ \E k \in 1..Len(stats_players) :
                 /\ stats_players[k].player = id
                 /\ stats_players[k].wins + stats_players[k].losses
                       + stats_players[k].ties >= 1

\* The part of C22 that holds: a human's and the text agent's matches.
C22_AttributedHumanLLM ==
    (/\ stats_call[1] = "record_match" /\ Len(stats_call) = 4
     /\ stats_call[2] \in {"human", "llm"}) =>
        stats_matches[Len(stats_matches)].player
            = PolicyOf(stats_call[2], stats_call[3])

\* A win of the Monte Carlo policy stored and counted as a human's.
C22_CountedAsHuman ==
    /\ stats_call = <<"record_match", "monte_carlo", "monte_carlo", "player">>
    /\ stats_matches[Len(stats_matches)].player = "human"
    /\ stats_players[1].player = "human" /\ stats_players[1].wins >= 1

(***************************************************************************)
(* The training environment: the claim on step                             *)
(***************************************************************************)

\* The total of a hand of card values: the highest total not above 21 that
\* counting aces as 11 or as 1 gives, and with none, every ace counted as 1.
HandTotal(cards) ==
    LET aces == Cardinality({i \in 1..Len(cards) : cards[i] = 11})
        totals == {SumOf(cards) - 10 * k : k \in 0..aces}
        fit == {t \in totals : t <= 21}
    IN IF fit = {} THEN SumOf(cards) - 10 * aces
       ELSE CHOOSE t \in fit : \A u \in fit : u <= t

\* The dealer hand d is the hand [visible, hidden] drawn to until its total
\* was at least 17.
DrawnTo17(e, d) ==
    /\ Len(d) >= 2
    /\ d[1] = e.dealer_visible_card
    /\ d[2] = e.dealer_hidden_card
    /\ HandTotal(d) >= 17
    /\ \A k \in 2..(Len(d) - 1) : HandTotal(SubSeq(d, 1, k)) < 17

C26_Hit ==
    LET before == Len(env.player_cards)
    IN /\ Len(env'.player_cards) = before + 1
       /\ SubSeq(env'.player_cards, 1, before) = env.player_cards
       /\ env'.player_cards[before + 1] \in 2..11
       /\ env_call'.done = (HandTotal(env'.player_cards) > 21)
       /\ env_call'.reward = IF env_call'.done THEN -1 ELSE 0

C26_Stand ==
    LET player_sum == HandTotal(env.player_cards)
        dealer_sum == HandTotal(env_call'.dealer)
    IN /\ env'.player_cards = env.player_cards
       /\ env_call'.done
       /\ DrawnTo17(env, env_call'.dealer)
       /\ env_call'.reward =
             IF dealer_sum > 21 \/ player_sum > dealer_sum THEN 1
             ELSE IF player_sum < dealer_sum THEN -1
             ELSE 0

\* C26: a step that hits adds one card and returns done with reward -1
\* exactly when the player's total then exceeds 21, and otherwise not done
\* with reward 0; a step that stands returns done, the dealer having drawn
\* until its total was at least 17, with reward +1 if the dealer's total
\* exceeds 21 or the player's is higher, -1 if the player's is lower and 0 if
\* the two are equal; the reward returned is non-zero only when done is
\* returned.
C26_Step ==
    [][ env_call'.op = "step" =>
          /\ env_call'.action = ActHit => C26_Hit
          /\ env_call'.action = ActStand => C26_Stand
          /\ env_call'.reward = env'.reward
          /\ env_call'.done = env'.done
          /\ env_call'.reward # 0 => env_call'.done ]_env_vars

\* A stand after which the dealer drew twice or more and ended above the
\* player.
C26_Witness ==
    /\ env_call.op = "step"
    /\ env_call.action = ActStand
    /\ Len(env_call.dealer) > 3
    /\ env_call.reward = -1
    /\ env_call.done

(***************************************************************************)
(* train_monte_carlo: the claims on the update at the end of an episode    *)
(***************************************************************************)

\* The (state, action) pairs of the episode played, and for such a pair the
\* first pass it occurred at and the sum of the rewards from that pass on.
EpisodePairs ==
    {<<episode_states[t], episode_actions[t]>> : t \in 1..Len(episode_states)}
FirstPass(pair) ==
    CHOOSE t \in 1..Len(episode_states) :
        /\ <<episode_states[t], episode_actions[t]>> = pair
        /\ \A i \in 1..(t - 1) :
              <<episode_states[i], episode_actions[i]>> # pair
ReturnFrom(t) == SumOf(SubSeq(episode_rewards, t, Len(episode_rewards)))

\* The quotient q is the arithmetic mean of the list l.
IsMean(q, l) == q[2] > 0 /\ q[1] * Len(l) = SumOf(l) * q[2]

C27_Update ==
    /\ DOMAIN returns' = DOMAIN returns \cup EpisodePairs
    /\ DOMAIN Q' = DOMAIN returns'
    /\ \A pair \in EpisodePairs :
          /\ returns'[pair] =
                Append(IF pair \in DOMAIN returns THEN returns[pair] ELSE <<>>,
                       ReturnFrom(FirstPass(pair)))
          /\ IsMean(Q'[pair], returns'[pair])
    /\ \A pair \in DOMAIN returns \ EpisodePairs :
          returns'[pair] = returns[pair] /\ Q'[pair] = Q[pair]

\* C27: at the end of an episode every (state, action) pair that occurred in
\* it has had exactly one return added to its list, the undiscounted sum of
\* the rewards from its first occurrence to the end of the episode, however
\* often it occurred, and its Q is then the arithmetic mean of all the
\* returns in its list; the other pairs are left as they were.
C27_FirstVisit == [][episode' = episode + 1 => C27_Update]_train_vars

\* The training has ended on an episode in which a pair occurred twice, and
\* that pair's list now holds two returns.
C27_Witness ==
    /\ episode = MaxEpisodes
    /\ \E t \in 1..Len(episode_states) : \E i \in 1..(t - 1) :
          /\ episode_states[i] = episode_states[t]
          /\ episode_actions[i] = episode_actions[t]
          /\ Len(returns[<<episode_states[t], episode_actions[t]>>]) = 2

\* The policy at a state of the episode follows the averages of the two
\* actions when both have one: the action of the larger, and on a tie the
\* action tie.
GreedyAt(state, tie) ==
    LET stand == <<state, ActStand>>
        hit == <<state, ActHit>>
    IN (stand \in DOMAIN Q' /\ hit \in DOMAIN Q') =>
          /\ state \in DOMAIN policy'
          /\ Less(Q'[hit], Q'[stand]) => policy'[state] = ActStand
          /\ Less(Q'[stand], Q'[hit]) => policy'[state] = ActHit
          /\ Q'[stand] = Q'[hit] => policy'[state] \in tie

\* C28: after the update at the end of an episode the policy at every state
\* visited in the episode is the action with the larger average return, and
\* STAND when the two averages are equal.
C28_Greedy ==
    [][episode' = episode + 1 =>
          \A t \in 1..Len(episode_states) :
              GreedyAt(episode_states[t], {ActStand})]_train_vars

\* The same with nothing said of the policy on a tie: it holds.
C28_GreedyApartFromTies ==
    [][episode' = episode + 1 =>
          \A t \in 1..Len(episode_states) :
              GreedyAt(episode_states[t], Actions)]_train_vars

\* The training has ended on an episode that visited a state whose two
\* averages are equal, and the policy there is HIT.
C28_TieHits ==
    /\ episode = MaxEpisodes
    /\ \E t \in 1..Len(episode_states) :
          LET state == episode_states[t]
          IN /\ <<state, ActStand>> \in DOMAIN Q
             /\ <<state, ActHit>> \in DOMAIN Q
             /\ Q[<<state, ActStand>>] = Q[<<state, ActHit>>]
             /\ policy[state] = ActHit

(***************************************************************************)
(* The MonteCarloAgent that serves: the claim on the saved policy          *)
(***************************************************************************)

\* C21: an agent constructed when monte_carlo_model.json was there chooses,
\* in a get_action call that does not explore, the action the file holds for
\* the state of the call, when it holds one.
C21_SavedPolicyServed ==
    (/\ served_call.op = "get_action"
     /\ served_call.file
     /\ ~served_call.explore
     /\ Str(served_call.state) \in DOMAIN model_file.policy)
    => served_call.action = model_file.policy[Str(served_call.state)]

\* Whatever the file holds, an agent that does not explore plays the default
\* policy below 21: hit under 17, otherwise stand.
C21_AlwaysDefault ==
    (/\ served_call.op = "get_action"
     /\ ~served_call.explore
     /\ served_call.state[1] < 21)
    => served_call.action = default_action(served_call.state[1])

\* An agent constructed with the file there was asked at a state for which
\* the file holds the other action than the default one.
C21_SavedIgnored ==
    /\ served_call.op = "get_action"
    /\ served_call.file
    /\ ~served_call.explore
    /\ Str(served_call.state) \in DOMAIN model_file.policy
    /\ served_call.state[1] < 21
    /\ model_file.policy[Str(served_call.state)]
          # default_action(served_call.state[1])
    /\ served_call.action = default_action(served_call.state[1])

(***************************************************************************)
(* train_deep_q: the claim on the replay memory                            *)
(***************************************************************************)

C29_Bounded == Len(memory) <= memory_capacity

\* The transition of the step just taken.
C29_Transition ==
    <<get_state(env), env_call'.action, env_call'.reward, env_call'.state,
      env_call'.done>>

C29_Store ==
    /\ Len(memory) < memory_capacity =>
          memory' = Append(memory, C29_Transition)
    /\ Len(memory) = memory_capacity =>
          memory' = Append(Tail(memory), C29_Transition)
    /\ dq_call'.learned = (Len(memory') >= batch_size)

\* C29: the replay memory never holds more than memory_capacity transitions
\* once a step has stored its transition; a transition stored into a full
\* memory evicts the oldest one and keeps the order of the others; and a step
\* learns from a batch exactly when the memory then holds at least
\* batch_size transitions.
C29_Memory ==
    /\ []C29_Bounded
    /\ [][dq_call'.steps = dq_call.steps + 1 => C29_Store]_dq_vars

\* A step has stored into a full memory and learned.
C29_Witness ==
    /\ dq_call.steps > memory_capacity
    /\ Len(memory) = memory_capacity
    /\ dq_call.learned

(***************************************************************************)
(* The RL policies: the state read back from the player prompt             *)
(***************************************************************************)

\* The characters of a rank and of a suit.
RankText(rank) == IF rank = "10" THEN <<"1", "0">> ELSE <<rank>>
SuitText(suit) ==
    CASE suit = "hearts" -> <<"h", "e", "a", "r", "t", "s">>
      [] suit = "diamonds" -> <<"d", "i", "a", "m", "o", "n", "d", "s">>
      [] suit = "clubs" -> <<"c", "l", "u", "b", "s">>
      [] suit = "spades" -> <<"s", "p", "a", "d", "e", "s">>

\* Card.__str__
card_str(card) ==
    IF card.hidden
    THEN <<"H", "i", "d", "d", "e", "n", " ", "C", "a", "r", "d">>
    ELSE RankText(card.rank) \o <<" ", "o", "f", " ">> \o SuitText(card.suit)

\* ', '.join(str(card) for card in cards)
RECURSIVE JoinCards(_)
JoinCards(cards) ==
    IF cards = <<>> THEN <<>>
    ELSE IF Len(cards) = 1 THEN card_str(cards[1])
    ELSE card_str(cards[1]) \o <<",", " ">> \o JoinCards(Tail(cards))

\* str of a number from 0 to 99
NumberText(n) ==
    LET digit(d) == <<"0", "1", "2", "3", "4", "5", "6", "7", "8", "9">>[d + 1]
    IN IF n < 10 THEN <<digit(n)>> ELSE <<digit(n \div 10), digit(n % 10)>>

YourCards ==
    <<"Y", "o", "u", "r", " ", "c", "a", "r", "d", "s", ":">>
YourHandValue ==
    <<"Y", "o", "u", "r", " ", "h", "a", "n", "d", " ", "v", "a", "l", "u",
      "e", ":">>
DealersVisibleCards ==
    <<"D", "e", "a", "l", "e", "r", "'", "s", " ", "v", "i", "s", "i", "b",
      "l", "e", " ", "c", "a", "r", "d", "s", ":">>
DealersVisibleValue ==
    <<"D", "e", "a", "l", "e", "r", "'", "s", " ", "v", "i", "s", "i", "b",
      "l", "e", " ", "h", "a", "n", "d", " ", "v", "a", "l", "u", "e", ":">>

\* BlackjackGame.get_player_llm_prompt, from the line of the player's cards
\* to the line of the dealer's visible value; the text before and after
\* holds none of the three labels _parse_state splits at.
get_player_bj_prompt(g) ==
    LET visible == SelectSeq(g.dealer_hand, LAMBDA c : ~c.hidden)
    IN YourCards \o <<" ">> \o JoinCards(g.player_hand) \o <<"\n">>
       \o YourHandValue \o <<" ">> \o NumberText(get_value(g.player_hand))
       \o <<"\n", "\n">>
       \o DealersVisibleCards \o <<" ">> \o JoinCards(visible) \o <<"\n">>
       \o DealersVisibleValue \o <<" ">> \o NumberText(SumVisible(visible))
       \o <<"\n">>

\* t.split(pat)[0]
BeforeFirst(t, pat) ==
    LET at == Occurrences(t, pat)
    IN IF at = {} THEN t
       ELSE SubSeq(t, 1, (CHOOSE i \in at : \A j \in at : i <= j) - 1)

\* The ranks _parse_state looks for, in its order, and the value of each.
ParseRanks ==
    <<"A", "2", "3", "4", "5", "6", "7", "8", "9", "10", "J", "Q", "K">>

\* The values _parse_state collects from a part of the text: one for each
\* rank that occurs in it, in the order of ParseRanks.
found(part) ==
    LET seen == SelectSeq(ParseRanks,
                          LAMBDA rank : Contains(part, RankText(rank)))
    IN [i \in 1..Len(seen) |-> CARD_VALUES[seen[i]]]

\* RLInterface._parse_state: [player_cards, dealer_visible_card]
parse_state(text) ==
    LET player_part ==
            BeforeFirst(AfterFirst(text, YourCards), YourHandValue)
        dealer_part ==
            BeforeFirst(AfterFirst(text, DealersVisibleCards), <<"\n">>)
        dealer == found(dealer_part)
    IN [player_cards |->
            IF Contains(text, YourCards) THEN found(player_part) ELSE <<>>,
        dealer_visible_card |->
            IF Contains(text, DealersVisibleCards) /\ dealer # <<>>
            THEN dealer[1] ELSE 0]

\* The state get_action makes of what _parse_state read in the prompt.
ReadBack ==
    LET read == parse_state(get_player_bj_prompt(BJGame))
    IN get_action(Empty, read.player_cards, read.dealer_visible_card,
                  FALSE, ActStand).state

\* The player is to act: the game is dealt and not over, the dealer's first
\* card still hidden.
PlayerToAct ==
    /\ ~bj_game_over
    /\ Len(player_hand) >= 2
    /\ Len(dealer_hand) = 2
    /\ dealer_hand[1].hidden
    /\ ~dealer_hand[2].hidden

\* C30: whenever the player is to act, the player total the RL policy makes
\* of the state parsed from the player prompt is the value of the player's
\* hand, and the parsed dealer card is the value of the dealer's visible card.
C30_RoundTrip ==
    PlayerToAct =>
        /\ ReadBack[1] = get_value(player_hand)
        /\ ReadBack[2] = dealer_hand[2].value

\* The same for the hands in which no two cards have the same rank: it holds.
C30_RoundTripDistinctRanks ==
    (/\ PlayerToAct
     /\ \A i \in 1..Len(player_hand), j \in 1..Len(player_hand) :
           i # j => player_hand[i].rank # player_hand[j].rank)
    => /\ ReadBack[1] = get_value(player_hand)
       /\ ReadBack[2] = dealer_hand[2].value

\* The player is to act on a pair, and the total read back is too low.
C30_PairReadOnce ==
    /\ PlayerToAct
    /\ player_hand[1].rank = player_hand[2].rank
    /\ ReadBack[1] < get_value(player_hand)

(***************************************************************************)
(* Connect 4 GameStats: the claim on the match log and the counters        *)
(***************************************************************************)

\* Only Connect 4 matches were recorded.
Connect4Log ==
    \A k \in 1..Len(stats_matches) : "player1" \in DOMAIN stats_matches[k]

RECURSIVE Total(_, _)
Total(players, field) ==
    IF players = <<>> THEN 0
    ELSE Head(players)[field] + Total(Tail(players), field)

C31_Counters ==
    Connect4Log =>
        /\ Total(stats_players, "wins") = Total(stats_players, "losses")
        /\ Total(stats_players, "wins") + Total(stats_players, "losses")
              + Total(stats_players, "ties") = 2 * Len(stats_matches)

C31_Appended ==
    /\ Len(stats_matches') = Len(stats_matches) + 1
    /\ SubSeq(stats_matches', 1, Len(stats_matches)) = stats_matches

\* C31: each record_match of the Connect 4 statistics appends exactly one
\* record and leaves the earlier records as they were; and from the default
\* statistics on, the wins of all players together equal the losses of all
\* players together, and the wins, losses and ties together are twice the
\* number of matches recorded.
C31_Log ==
    /\ []C31_Counters
    /\ [][stats_call' = <<"record_match">> => C31_Appended]_stats_vars

\* Three Connect 4 matches are recorded, one of them won with the same player
\* in both seats, one with a player the default statistics do not hold.
C31_Witness ==
    /\ Connect4Log
    /\ stats_call = <<"record_match">>
    /\ Len(stats_matches) = 3
    /\ \E k \in 1..3 : /\ stats_matches[k].player1 = stats_matches[k].player2
                       /\ stats_matches[k].winner # 0
    /\ Len(stats_players) > Len(default_players)

(***************************************************************************)
(* Both engines: the claim on the terminal flag and the outcome            *)
(***************************************************************************)

C32_Agree ==
    /\ game_over <=> winner # NoWinner
    /\ winner \in {NoWinner, 0, 1, 2}
    /\ bj_game_over <=> bj_winner # None
    /\ bj_winner \in {None, "player", "dealer", "tie"}

C32_Cleared ==
    /\ (winner # NoWinner /\ winner' = NoWinner) => c4_call' = <<"reset_game">>
    /\ (bj_winner # None /\ bj_winner' = None) => bj_call'[1] = "start_game"

\* C32: in both engines game_over is true exactly when winner is not None; a
\* Connect 4 winner is 0, 1 or 2 and a Blackjack winner 'player', 'dealer'
\* or 'tie'; and a winner that is set becomes None again only in reset_game
\* or start_game.
C32_Outcome ==
    /\ []C32_Agree
    /\ [][C32_Cleared]_<<c4_vars, bj_vars>>

\* A Connect 4 game drawn on the last cell: over, with winner 0.
C32_Witness ==
    /\ game_over
    /\ winner = 0
    /\ moves_count = 42
    /\ c4_call[1] = "make_move"

(***************************************************************************)
(* Blackjack: the claims on the games that are not over and on the games   *)
(* that are                                                                *)
(***************************************************************************)

C33_Below21 == ~bj_game_over => get_value(player_hand) < 21

\* C33: once start_game has been called, in every state in which the game is
\* not over the value of the player's hand is below 21, whatever player_hit,
\* player_stand, start_game and response-processing calls follow.
C33_NeverAt21 == [](bj_call[1] = "start_game" => []C33_Below21)

\* A game started and not over in which the player has hit to 20.
C33_Witness ==
    /\ ~bj_game_over
    /\ dealer_hand # <<>>
    /\ dealer_hand[1].hidden
    /\ Len(player_hand) >= 3
    /\ get_value(player_hand) = 20

HoleCardRevealed == \A i \in 1..Len(dealer_hand) : ~dealer_hand[i].hidden

\* C34: in every state in which the game is over no card of the dealer's hand
\* is hidden, whichever of start_game, player_hit, player_stand and the two
\* response-processing calls ended the game.
C34_Revealed == bj_game_over => HoleCardRevealed

\* The part that holds: a game ended by start_game, player_hit, player_stand
\* or a player response has no hidden dealer card.
C34_RevealedByPlayerSide ==
    [][(/\ ~bj_game_over
        /\ bj_game_over'
        /\ bj_call'[1] \in {"start_game", "player_hit", "player_stand",
                            "process_player_llm_response"})
       => HoleCardRevealed']_bj_vars

\* A game ended by a dealer response while the first dealer card is still
\* hidden: the dealer's reported value leaves that card out.
C34_HiddenAtEnd ==
    /\ bj_game_over
    /\ bj_call[1] = "process_dealer_llm_response"
    /\ dealer_hand # <<>>
    /\ dealer_hand[1].hidden
    /\ bj_winner # None

(***************************************************************************)
(* The Blackjack driver: the claims on the match log and on the loops      *)
(***************************************************************************)

\* The step ends a match: it leaves the game over and either found it not
\* over or is a start-game request, which deals a new game.
C35_EndsMatch ==
    /\ bj_game_over'
    /\ \/ ~bj_game_over
       \/ bjapp_pc = "idle" /\ bjapp_call'.request = "start-game"

\* C35: a match is appended to the match log in the step that ends a match,
\* once, and in no other step, whatever hit and stand requests arrive after
\* the game has ended and before the next start-game request.
C35_RecordedOnce ==
    [][Len(stats_matches') = Len(stats_matches)
                             + (IF C35_EndsMatch THEN 1 ELSE 0)]_<<bj_vars, stats_vars, bjapp_vars>>

\* The part that holds: a request that ends a match and is answered with
\* status 200 appends it once.
C35_RecordedWhenEnded ==
    [][(C35_EndsMatch /\ bjapp_pc' = "idle" /\ bjapp_call'.status = 200)
       => Len(stats_matches') = Len(stats_matches) + 1]_<<bj_vars, stats_vars, bjapp_vars>>

\* A hit request answered on a game that was over before it, with a match in
\* the log for it and one more for the request.
C35_RecordedAgain ==
    /\ bjapp_call.request = "player-hit"
    /\ bjapp_call.status = 200
    /\ bj_game_over
    /\ Len(stats_matches) = 2
    /\ stats_call[1] = "record_match"
    /\ Len(player_hand) = 2

\* C36: a start-game request with a non-human player completes: the AI loop
\* it has entered is left after finitely many decisions, whatever the policy
\* answers, the answers that resolve to neither HIT nor STAND included.
C36_Completes == (bjapp_pc # "idle") ~> (bjapp_pc = "idle")

\* The part that holds: with the Monte Carlo or the deep-Q policy on the seat,
\* which answer HIT or STAND, the loop is left.
C36_CompletesRL ==
    (bjapp_pc # "idle" /\ bj_player_type # "llm") ~> (bjapp_pc = "idle")

\* The loop about to ask again after an answer that resolved to no action:
\* the engine is as it was before the answer.
C36_AskedAgain ==
    /\ bjapp_pc = "player_prompt"
    /\ bj_player_type = "llm"
    /\ bj_call = <<"process_player_llm_response", "INVALID", <<InvalidResponse>> >>
    /\ ~bj_game_over

\* The step applies a stand: a stand request answered with status 200, or an
\* answer of the policy on the player seat that resolved to STAND.
C37_StandApplied ==
    \/ /\ bjapp_pc = "idle"
       /\ bjapp_call'.request = "player-stand"
       /\ bjapp_call'.status = 200
    \/ /\ bjapp_pc = "player_response"
       /\ bj_call' = <<"process_player_llm_response", "STAND", <<"STAND">> >>

C37_NoDealerDecision == bjapp_call.dealer_asked = 0

\* C37: once a stand has been applied the game is over, the dealer's hand
\* shown in full and, where the stand found the game open, drawn to at least
\* 17 by the engine; no request ever asks the text agent for a dealer
\* decision.
C37_DealerByRule ==
    /\ []C37_NoDealerDecision
    /\ [][C37_StandApplied =>
            /\ bj_game_over'
            /\ HoleCardRevealed'
            /\ ~bj_game_over => get_value(dealer_hand') >= 17]_<<bj_vars, bjapp_vars>>

\* A stand request on an open game: the engine drew for the dealer and the
\* request asked for no dealer decision.
C37_Witness ==
    /\ bjapp_call.request = "player-stand"
    /\ bjapp_call.status = 200
    /\ bjapp_call.dealer_asked = 0
    /\ bj_call[1] = "player_stand"
    /\ bj_game_over
    /\ Len(dealer_hand) >= 3
    /\ Len(stats_matches) = 1

(***************************************************************************)
(* Blackjack: what the player side is shown                                *)
(***************************************************************************)

\* Card.to_dict with the test of hidden left out.
card_to_dict_Shown(card) ==
    [suit |-> card.suit, rank |-> card.rank, value |-> CARD_VALUES[card.rank],
     hidden |-> card.hidden]

\* Card.to_dict
card_to_dict(card) ==
    IF card.hidden
    THEN [hidden |-> TRUE]
    ELSE [suit |-> card.suit, rank |-> card.rank,
          value |-> CARD_VALUES[card.rank], hidden |-> card.hidden]

\* Hand.to_dict
hand_to_dict(cards) ==
    [cards |-> [i \in 1..Len(cards) |-> card_to_dict(cards[i])],
     value |-> get_value(cards),
     is_blackjack |-> is_blackjack(cards),
     is_busted |-> is_busted(cards)]

\* BlackjackGame.get_game_state
get_game_state(g) ==
    [player_hand |-> hand_to_dict(g.player_hand),
     dealer_hand |-> hand_to_dict(g.dealer_hand),
     game_over |-> g.game_over, winner |-> g.winner, message |-> g.message]

\* The engine g with the card c face down in the place of its hidden card.
WithHidden(g, c) == [g EXCEPT !.dealer_hand[1] = [c EXCEPT !.hidden = TRUE]]

\* C38: while the first dealer card is hidden, the engine with any other
\* card of the pack in its place returns the same prompt for the player and
\* the same game state dictionary.
C38_HiddenNotShown ==
    (dealer_hand # <<>> /\ dealer_hand[1].hidden) =>
        \A k \in 1..Len(Ordered) :
            LET other == WithHidden(BJGame, Ordered[k])
            IN /\ get_player_bj_prompt(other) = get_player_bj_prompt(BJGame)
               /\ get_game_state(other) = get_game_state(BJGame)

\* A game whose hidden card is an ace: the dictionary shows the card face
\* down and gives the value of the visible card alone.
C38_Witness ==
    /\ dealer_hand # <<>>
    /\ dealer_hand[1].hidden
    /\ dealer_hand[1].rank = "A"
    /\ Len(dealer_hand) = 2
    /\ ~bj_game_over
    /\ get_game_state(BJGame).dealer_hand.cards[1] = [hidden |-> TRUE]
    /\ get_game_state(BJGame).dealer_hand.value = CARD_VALUES[dealer_hand[2].rank]

(***************************************************************************)
(* The training environment: the claim on the length of an episode         *)
(***************************************************************************)

\* The number of HIT steps of the episode: reset deals two cards to the
\* player and only a HIT adds one.
C39_Hits == Len(env.player_cards) - 2

C39_AtMost20 ==
    /\ C39_Hits <= 20
    /\ C39_Hits = 20 => env.done

C39_StandEnds ==
    (env_call'.op = "step" /\ env_call'.action = ActStand) => env'.done

\* C39: an episode has at most 20 HIT steps and is done after the 20th, a
\* STAND step leaves it done, and an episode that is stepped until done
\* becomes done, whatever the actions and the cards drawn.
C39_Terminates ==
    /\ []C39_AtMost20
    /\ [][C39_StandEnds]_env_vars
    /\ (~env.done ~> env.done)

\* The longest episode: two aces dealt and twenty aces drawn, the last one
\* bringing the player's sum to 22.
C39_Witness ==
    /\ env.done
    /\ C39_Hits = 20
    /\ env_call.op = "step"
    /\ env_call.action = ActHit
    /\ env_call.reward = -1
    /\ get_sum(env.player_cards) = 22

(***************************************************************************)
(* The Connect 4 driver: the claim on whose decision places a piece        *)
(***************************************************************************)

\* The step is a make-move request whose column was applied.
C40_ColumnApplied ==
    /\ app_call'[1] = "make_move"
    /\ app_call'[3] = 200

\* C40: the column of a make-move request is applied only when the seat to
\* move is a human's, so that the pieces of a seat of the text agent come
\* from the agent's decisions and its fallback alone, also after an AI turn
\* that placed no piece.
C40_OwnSource ==
    [][C40_ColumnApplied =>
          player_type(C4Game, player1_type, player2_type) = "human"]_<<c4_vars, app_vars>>

\* The part that holds: a piece placed by get_ai_move is one of a seat of
\* the text agent, in the column its answer or fallback resolved to.
C40_AgentForOwnSeat ==
    (ai_move # NoAIMove /\ ai_move.success) =>
        /\ (IF ai_move.player = 1 THEN player1_type ELSE player2_type) = "llm"
        /\ last_move[1] = ai_move.column
        /\ board[last_move[1]][last_move[2]] = ai_move.player

\* A piece of seat 2, the text agent's, placed by the column of a make-move
\* request: the agent's turn before had placed none.
C40_PlacedForAgent ==
    /\ app_call[1] = "make_move"
    /\ app_call[3] = 200
    /\ player1_type = "human" /\ player2_type = "llm"
    /\ ai_move = NoAIMove
    /\ c4_call = <<"make_move", app_call[2], TRUE>>
    /\ last_move # NoMove
    /\ board[last_move[1]][last_move[2]] = 2

====
